---------------------------- MODULE Spec2Model ----------------------------
(***************************************************************************)
(* Sector-rotation scoring engine (analysis.py, config.py).                *)
(*                                                                         *)
(* Numbers.  The program computes in floating point; the model computes    *)
(* in exact arithmetic.  Indicator values are integers in fixed units:     *)
(*   RSI        whole points            (40   is 40)                       *)
(*   ADX_Z      tenths                  (-5   is -0.5)                     *)
(*   CMF        hundredths              (10   is 0.10)                     *)
(*   RS_Rating  tenths                  (30   is 3.0)                      *)
(*   DI_Spread  whole points                                               *)
(* Weights are whole percentage points (the sidebar sliders step by 1.0).  *)
(* Scores are exact rationals [n, d] in lowest terms with d > 0, so two    *)
(* scores are equal iff their records are equal.                           *)
(*                                                                         *)
(* A dict is a function from its keys; None is the value None below.       *)
(***************************************************************************)
EXTENDS Integers, Sequences, FiniteSets, TLC

VARIABLES
    sector_data,          \* analyze_all_sectors argument: the entities, in dict order
    momentum_weights,     \* analyze_all_sectors argument
    reversal_weights,     \* analyze_all_sectors argument (a dict or None)
    reversal_thresholds,  \* analyze_all_sectors argument (a dict or None)
    pc,                   \* position of the call: "idle", "loop", "done"
    idx,                  \* position of the for loop in sector_data
    results,              \* the local list `results`
    df,                   \* the value returned by the last finished call
    first_call,           \* history: the weights and the result of the first finished
                          \* call, and whether a call with other weights finished since
    args,                 \* the arguments of a function applied on its own
    value,                \* what that function returned (None before it returns)
    trend_pc,             \* position of a trend replay: "idle", "loop", "done"
    period_i,             \* the replay's loop variable i, from periods down to 1
    trend_data,           \* the replay's local list `trend_data`
    first_trend,          \* history: what the first finished replay returned
    data_cache,           \* data_fetcher._data_cache: cache key -> entry
    now,                  \* datetime.now().timestamp(), in seconds
    LOCAL_CACHE_AVAILABLE,\* data_fetcher.LOCAL_CACHE_AVAILABLE, set at import
    environment,          \* the requests made of the fetcher and what its sources reply
    last_fetch,           \* history: the last call of a fetch function and its attempts
    last_failed,          \* history: the keys whose latest fetch returned None
    last_clear,           \* history: the number of fetch calls made before the last
                          \* clear_data_cache
    futures,              \* fetch_all_sectors_parallel: the submitted tasks by name
    fetched_data,         \* fetch_all_sectors_parallel: its local dict `sector_data`
    failed_sectors,       \* fetch_all_sectors_parallel: its local list
    completed,            \* fetch_all_sectors_parallel: completed[0]
    progress_calls,       \* history: the calls of progress_callback, in order
    parallel_pc           \* position of fetch_all_sectors_parallel

\* the state of a call of analyze_all_sectors
call_vars == <<sector_data, momentum_weights, reversal_weights, reversal_thresholds,
               pc, idx, results, df, first_call>>

\* the state of a trend replay besides its arguments and returned value
trend_vars == <<trend_pc, period_i, trend_data, first_trend>>

\* the state of the data fetcher
fetch_vars == <<data_cache, now, LOCAL_CACHE_AVAILABLE, environment,
                last_fetch, last_failed, last_clear>>

\* the state of a call of fetch_all_sectors_parallel
parallel_vars == <<futures, fetched_data, failed_sectors, completed,
                   progress_calls, parallel_pc>>

\* the state of data_fetcher.py
other_vars == <<fetch_vars, parallel_vars>>

\* the state a call of analyze_all_sectors leaves alone
outside_call == <<args, value, trend_vars, other_vars>>

vars == <<call_vars, outside_call>>

-----------------------------------------------------------------------------
(* Bounds of the model *)

MaxEntities == 3

MaxFactor == 10

MaxBars == 3

MaxSeries == 2

MaxPeriods == 3

-----------------------------------------------------------------------------
(* Python values *)

None == [None |-> TRUE]

\* bool(x) of a dict-or-None argument: None and the empty dict are falsy
Truthy(x) == x # None /\ DOMAIN x # {}

\* dict.get(key, default)
Get(d, key, default) == IF key \in DOMAIN d THEN d[key] ELSE default

RECURSIVE SumOver(_, _)
SumOver(d, keys) ==
    IF keys = {} THEN 0
    ELSE LET k == CHOOSE x \in keys : TRUE
         IN  d[k] + SumOver(d, keys \ {k})

\* sum(d.values())
SumValues(d) == SumOver(d, DOMAIN d)

-----------------------------------------------------------------------------
(* Exact arithmetic *)

Abs(x) == IF x < 0 THEN -x ELSE x

Max(a, b) == IF a >= b THEN a ELSE b

RECURSIVE GCD(_, _)
GCD(a, b) == IF b = 0 THEN a ELSE GCD(b, a % b)

\* the rational n/d (d # 0) in lowest terms, denominator positive
Rat(n, d) ==
    LET g == GCD(Abs(n), Abs(d))
        s == IF d < 0 THEN -1 ELSE 1
    IN  [n |-> (s * n) \div g, d |-> (s * d) \div g]

\* Floating-point values that need not be finite are extended rationals:
\* [n, d] with d > 0 is n/d, [1, 0] is +inf, [-1, 0] is -inf and [0, 0] is NaN.
NaN == [n |-> 0, d |-> 0]

Inf(sign) == [n |-> sign, d |-> 0]

IsNaN(x) == x.n = 0 /\ x.d = 0

IsInf(x) == x.n # 0 /\ x.d = 0

Sign(n) == IF n < 0 THEN -1 ELSE IF n > 0 THEN 1 ELSE 0

\* n / d as numpy divides: x/0 is an infinity and 0/0 is NaN
XDiv(n, d) ==
    IF d # 0 THEN Rat(n, d)
    ELSE IF n = 0 THEN NaN ELSE Inf(Sign(n))

XMul(a, b) ==
    IF IsNaN(a) \/ IsNaN(b) THEN NaN
    ELSE IF IsInf(a) \/ IsInf(b)
         THEN (IF a.n = 0 \/ b.n = 0 THEN NaN ELSE Inf(Sign(a.n) * Sign(b.n)))
         ELSE LET g1 == Max(1, GCD(Abs(a.n), b.d))
                  g2 == Max(1, GCD(Abs(b.n), a.d))
              IN  Rat((a.n \div g1) * (b.n \div g2), (a.d \div g2) * (b.d \div g1))

XAdd(a, b) ==
    IF IsNaN(a) \/ IsNaN(b) THEN NaN
    ELSE IF IsInf(a) /\ IsInf(b) THEN (IF a.n = b.n THEN a ELSE NaN)
    ELSE IF IsInf(a) THEN a
    ELSE IF IsInf(b) THEN b
    ELSE Rat(a.n * b.d + b.n * a.d, a.d * b.d)

XNeg(a) == [n |-> -a.n, d |-> a.d]

\* a < b as floats compare: every comparison with NaN is false
XLt(a, b) ==
    IF IsNaN(a) \/ IsNaN(b) THEN FALSE
    ELSE IF IsInf(a) \/ IsInf(b)
         THEN (IF IsInf(a) /\ IsInf(b) THEN a.n < b.n
               ELSE IF IsInf(a) THEN a.n < 0
               ELSE b.n > 0)
         ELSE a.n * b.d < b.n * a.d

\* the builtins min(a, b) and max(a, b): the first argument stays unless
\* the second compares strictly below (above) it
PyMin(a, b) == IF XLt(b, a) THEN b ELSE a

PyMax(a, b) == IF XLt(a, b) THEN b ELSE a

-----------------------------------------------------------------------------
(* config.py *)

DEFAULT_MOMENTUM_WEIGHTS ==
    [ADX_Z |-> 20, RS_Rating |-> 40, RSI |-> 30, DI_Spread |-> 10]

DEFAULT_REVERSAL_WEIGHTS ==
    [RS_Rating |-> 40, CMF |-> 40, RSI |-> 10, ADX_Z |-> 10]

REVERSAL_BUY_DIV == [RSI |-> 40, ADX_Z |-> -5, CMF |-> 10]

REVERSAL_WATCH == [RSI |-> 50, ADX_Z |-> 5, CMF |-> 0]


-----------------------------------------------------------------------------
(* analysis.py: per-entity analysis *)

\* A price frame is the record of its columns; a column (a Series) is a
\* sequence of [t, value] in increasing timestamp t, the frame's index.
\* Only the Close column is read here.

\* data['Close'].pct_change().dropna(): each bar's close over the previous
\* bar's, minus 1; the first bar and every 0/0 are NaN and are dropped
pct_change_dropna(close) ==
    LET change(k) == XAdd(XDiv(close[k].value, close[k - 1].value), Rat(-1, 1))
        defined   == SelectSeq([k \in 1..Len(close) |-> k],
                               LAMBDA k : k > 1 /\ ~IsNaN(change(k)))
    IN  [j \in 1..Len(defined) |->
            [t |-> close[defined[j]].t, value |-> change(defined[j])]]

\* a.index.intersection(b.index)
index_intersection(a, b) ==
    {a[k].t : k \in 1..Len(a)} \cap {b[k].t : k \in 1..Len(b)}

\* series.loc[common_index]
loc(series, common_index) == SelectSeq(series, LAMBDA e : e.t \in common_index)

\* (1 + returns).prod()
RECURSIVE prod_one_plus(_)
prod_one_plus(returns) ==
    IF returns = <<>> THEN Rat(1, 1)
    ELSE XMul(XAdd(Rat(1, 1), Head(returns).value), prod_one_plus(Tail(returns)))

\* analyze_sector, lines 73-76: `series.iloc[-1] if not series.isna().all()
\* else default`.  An indicator series is a sequence of floats, NaN where
\* the indicator has no value; isna().all() is true of the empty series.
latest_or_default(series, default) ==
    IF ~(\A k \in 1..Len(series) : IsNaN(series[k]))
    THEN series[Len(series)]
    ELSE default

\* calculate_relative_strength with the rating bounded above only
calculate_relative_strength_no_floor(sector_returns, benchmark_returns) ==
    IF Len(sector_returns) < 2 \/ Len(benchmark_returns) < 2 THEN Rat(5, 1)
    ELSE LET sector_cumret    == XAdd(prod_one_plus(sector_returns), Rat(-1, 1))
             benchmark_cumret == XAdd(prod_one_plus(benchmark_returns), Rat(-1, 1))
         IN  IF IsNaN(sector_cumret) \/ IsNaN(benchmark_cumret) THEN Rat(5, 1)
             ELSE LET relative_perf == XAdd(sector_cumret, XNeg(benchmark_cumret))
                      rs_rating     == XAdd(Rat(5, 1), XMul(relative_perf, Rat(25, 1)))
                  IN  PyMin(Rat(10, 1), rs_rating)

\* calculate_relative_strength that rates a single return point
calculate_relative_strength_one_point(sector_returns, benchmark_returns) ==
    IF Len(sector_returns) < 1 \/ Len(benchmark_returns) < 1 THEN Rat(5, 1)
    ELSE LET sector_cumret    == XAdd(prod_one_plus(sector_returns), Rat(-1, 1))
             benchmark_cumret == XAdd(prod_one_plus(benchmark_returns), Rat(-1, 1))
         IN  IF IsNaN(sector_cumret) \/ IsNaN(benchmark_cumret) THEN Rat(5, 1)
             ELSE LET relative_perf == XAdd(sector_cumret, XNeg(benchmark_cumret))
                      rs_rating     == XAdd(Rat(5, 1), XMul(relative_perf, Rat(25, 1)))
                  IN  PyMax(Rat(0, 1), PyMin(Rat(10, 1), rs_rating))

\* calculate_relative_strength, lines 14-41
calculate_relative_strength(sector_returns, benchmark_returns) ==
    IF Len(sector_returns) < 2 \/ Len(benchmark_returns) < 2 THEN Rat(5, 1)
    ELSE LET sector_cumret    == XAdd(prod_one_plus(sector_returns), Rat(-1, 1))
             benchmark_cumret == XAdd(prod_one_plus(benchmark_returns), Rat(-1, 1))
         IN  IF IsNaN(sector_cumret) \/ IsNaN(benchmark_cumret) THEN Rat(5, 1)
             ELSE LET relative_perf == XAdd(sector_cumret, XNeg(benchmark_cumret))
                      rs_rating     == XAdd(Rat(5, 1), XMul(relative_perf, Rat(25, 1)))
                  IN  PyMax(Rat(0, 1), PyMin(Rat(10, 1), rs_rating))

\* analyze_sector, lines 84-98: the RS rating of an entity against the
\* benchmark (benchmark_data is None or a price frame)
relative_strength_vs_benchmark(data, benchmark_data) ==
    IF benchmark_data # None /\ Len(benchmark_data.Close) > 0
    THEN LET sector_returns    == pct_change_dropna(data.Close)
             benchmark_returns == pct_change_dropna(benchmark_data.Close)
             common_index      == index_intersection(sector_returns, benchmark_returns)
         IN  IF Cardinality(common_index) > 0
             THEN calculate_relative_strength(loc(sector_returns, common_index),
                                              loc(benchmark_returns, common_index))
             ELSE Rat(5, 1)
    ELSE Rat(5, 1)

\* calculate_reversal_score with the weights taken as percentages of 100
\* instead of shares of their sum
calculate_reversal_score_literal(rsi, adx_z, cmf, rs_rating, weights) ==
    Rat( 2 * (100 - rsi) * Get(weights, "RSI", 10)
       + 4 * Max(0, -adx_z) * Get(weights, "ADX_Z", 10)
       + (cmf + 100) * Get(weights, "CMF", 40)
       + 2 * (100 - rs_rating) * Get(weights, "RS_Rating", 40),
       20)

\* calculate_reversal_score without the floor max(0, .) on -adx_z
calculate_reversal_score_signed_adx(rsi, adx_z, cmf, rs_rating, weights) ==
    Rat(100 * ( 2 * (100 - rsi) * Get(weights, "RSI", 10)
              + 4 * (-adx_z) * Get(weights, "ADX_Z", 10)
              + (cmf + 100) * Get(weights, "CMF", 40)
              + 2 * (100 - rs_rating) * Get(weights, "RS_Rating", 40) ),
        20 * SumValues(weights))

\* calculate_reversal_score: the absolute score.  In the model's units the
\* four normalised indicators are, times 20:
\*   (100 - rsi)/10 -> 2*(100 - RSI);   max(0, -adx_z)*2 -> 4*max(0, -ADX_Z);
\*   (cmf + 1)*5    -> CMF + 100;       10 - rs_rating   -> 2*(100 - RS_Rating)
calculate_reversal_score(rsi, adx_z, cmf, rs_rating, weights) ==
    LET rsi_normalized       == 2 * (100 - rsi)
        adx_z_normalized     == 4 * Max(0, -adx_z)
        cmf_normalized       == cmf + 100
        rs_rating_normalized == 2 * (100 - rs_rating)
        total_weight         == SumValues(weights)
    IN  Rat(100 * ( rsi_normalized * Get(weights, "RSI", 10)
                  + adx_z_normalized * Get(weights, "ADX_Z", 10)
                  + cmf_normalized * Get(weights, "CMF", 40)
                  + rs_rating_normalized * Get(weights, "RS_Rating", 40) ),
            20 * total_weight)

\* determine_reversal_status with every comparison non-strict
determine_reversal_status_nonstrict(rsi, adx_z, cmf, thresholds) ==
    IF Truthy(thresholds)
          /\ ~( rsi <= Get(thresholds, "RSI", 40)
                /\ adx_z <= Get(thresholds, "ADX_Z", 0) )
    THEN "No"
    ELSE IF rsi <= REVERSAL_BUY_DIV.RSI /\ adx_z <= REVERSAL_BUY_DIV.ADX_Z
               /\ cmf >= REVERSAL_BUY_DIV.CMF
         THEN "BUY_DIV"
         ELSE IF rsi <= REVERSAL_WATCH.RSI /\ adx_z <= REVERSAL_WATCH.ADX_Z
                    /\ cmf >= REVERSAL_WATCH.CMF
              THEN "Watch"
              ELSE "No"

\* determine_reversal_status with the user filter applied after the tiers,
\* as a second way to qualify
determine_reversal_status_filter_or(rsi, adx_z, cmf, thresholds) ==
    LET tier == IF rsi < REVERSAL_BUY_DIV.RSI /\ adx_z < REVERSAL_BUY_DIV.ADX_Z
                      /\ cmf > REVERSAL_BUY_DIV.CMF
                THEN "BUY_DIV"
                ELSE IF rsi < REVERSAL_WATCH.RSI /\ adx_z < REVERSAL_WATCH.ADX_Z
                           /\ cmf > REVERSAL_WATCH.CMF
                     THEN "Watch"
                     ELSE "No"
    IN  IF Truthy(thresholds)
        THEN IF rsi < Get(thresholds, "RSI", 40)
                   /\ adx_z < Get(thresholds, "ADX_Z", 0)
             THEN (IF tier = "No" THEN "Watch" ELSE tier)
             ELSE "No"
        ELSE tier

determine_reversal_status(rsi, adx_z, cmf, thresholds) ==
    IF Truthy(thresholds)
          /\ ~( rsi < Get(thresholds, "RSI", 40)
                /\ adx_z < Get(thresholds, "ADX_Z", 0) )
    THEN "No"
    ELSE IF rsi < REVERSAL_BUY_DIV.RSI /\ adx_z < REVERSAL_BUY_DIV.ADX_Z
               /\ cmf > REVERSAL_BUY_DIV.CMF
         THEN "BUY_DIV"
         ELSE IF rsi < REVERSAL_WATCH.RSI /\ adx_z < REVERSAL_WATCH.ADX_Z
                    /\ cmf > REVERSAL_WATCH.CMF
              THEN "Watch"
              ELSE "No"

\* analyze_sector.  `data` stands for the entity's price data through what
\* the indicator functions make of it: data.ok says whether the indicator
\* computation completes (FALSE: it raises), and the other fields are the
\* latest indicator values and the RS rating.  The row keeps the columns
\* the scorer reads or writes; Symbol, Price, Change_%, ADX and
\* Mansfield_RS are carried through unread and are left out.
analyze_sector(name, data, rev_weights, thresholds) ==
    LET weights == IF rev_weights = None THEN DEFAULT_REVERSAL_WEIGHTS
                   ELSE rev_weights
    IN  IF ~data.ok THEN None
        ELSE [ Sector          |-> name,
               RSI             |-> data.RSI,
               ADX_Z           |-> data.ADX_Z,
               DI_Spread       |-> data.DI_Spread,
               CMF             |-> data.CMF,
               RS_Rating       |-> data.RS_Rating,
               Momentum_Score  |-> Rat(0, 1),
               Reversal_Score  |-> calculate_reversal_score(
                                       data.RSI, data.ADX_Z, data.CMF,
                                       data.RS_Rating, weights),
               Reversal_Status |-> determine_reversal_status(
                                       data.RSI, data.ADX_Z, data.CMF,
                                       thresholds) ]

-----------------------------------------------------------------------------
(* analysis.py: the cross-sectional scorer *)

\* a column of a frame, in row order
Column(frame, col) == [i \in 1..Len(frame) |-> frame[i][col]]

RECURSIVE Insert(_, _)
Insert(x, s) ==
    IF s = <<>> THEN <<x>>
    ELSE IF x <= Head(s) THEN <<x>> \o s
         ELSE <<Head(s)>> \o Insert(x, Tail(s))

RECURSIVE SortAsc(_)
SortAsc(s) == IF s = <<>> THEN <<>> ELSE Insert(Head(s), SortAsc(Tail(s)))

Reverse(s) == [i \in 1..Len(s) |-> s[Len(s) + 1 - i]]

\* Series.rank(method='max'): ties share the last position of their group
rank_max(values, ascending) ==
    LET ordered == IF ascending THEN SortAsc(values) ELSE Reverse(SortAsc(values))
    IN  [i \in 1..Len(values) |->
            CHOOSE p \in 1..Len(ordered) :
                /\ ordered[p] = values[i]
                /\ \A q \in (p + 1)..Len(ordered) : ordered[q] # values[i]]

\* Series.rank(ascending=..., method='min'): the values are put in order and
\* each gets the first position its value takes in that order
rank(values, ascending) ==
    LET ordered == IF ascending THEN SortAsc(values) ELSE Reverse(SortAsc(values))
    IN  [i \in 1..Len(values) |->
            CHOOSE p \in 1..Len(ordered) :
                /\ ordered[p] = values[i]
                /\ \A q \in 1..(p - 1) : ordered[q] # values[i]]

\* the momentum ranking with RS_Rating ranked descending
momentum_ranks_rs_descending(frame) ==
    LET adx == rank(Column(frame, "ADX_Z"), TRUE)
        rs  == rank(Column(frame, "RS_Rating"), FALSE)
        rsi == rank(Column(frame, "RSI"), TRUE)
        di  == rank(Column(frame, "DI_Spread"), TRUE)
    IN  [i \in 1..Len(frame) |->
            frame[i] @@ [ADX_Z_Rank |-> adx[i], RS_Rating_Rank |-> rs[i],
                         RSI_Rank |-> rsi[i], DI_Spread_Rank |-> di[i]]]

\* lines 245-248: the four rank columns over the whole frame
momentum_ranks(frame) ==
    LET adx == rank(Column(frame, "ADX_Z"), TRUE)
        rs  == rank(Column(frame, "RS_Rating"), TRUE)
        rsi == rank(Column(frame, "RSI"), TRUE)
        di  == rank(Column(frame, "DI_Spread"), TRUE)
    IN  [i \in 1..Len(frame) |->
            frame[i] @@ [ADX_Z_Rank |-> adx[i], RS_Rating_Rank |-> rs[i],
                         RSI_Rank |-> rsi[i], DI_Spread_Rank |-> di[i]]]

\* the momentum score with the weights divided by their own sum
momentum_score_renormalised(row, weights) ==
    Rat( row.ADX_Z_Rank * Get(weights, "ADX_Z", 20)
       + row.RS_Rating_Rank * Get(weights, "RS_Rating", 40)
       + row.RSI_Rank * Get(weights, "RSI", 30)
       + row.DI_Spread_Rank * Get(weights, "DI_Spread", 10),
       SumValues(weights))

\* lines 252-257: the composite momentum score of one row
momentum_score(row, weights) ==
    Rat( row.ADX_Z_Rank * Get(weights, "ADX_Z", 20)
       + row.RS_Rating_Rank * Get(weights, "RS_Rating", 40)
       + row.RSI_Rank * Get(weights, "RSI", 30)
       + row.DI_Spread_Rank * Get(weights, "DI_Spread", 10),
       100)

\* the rows every reversal ranking would run over if nothing were filtered
eligible_index_all(frame) == [i \in 1..Len(frame) |-> i]

\* line 261: the index of eligible_reversals, the rows of the frame whose
\* Reversal_Status is not 'No', in frame order
eligible_index(frame) ==
    SelectSeq([i \in 1..Len(frame) |-> i],
              LAMBDA i : frame[i].Reversal_Status # "No")

\* the rank-based reversal score with the weights divided by the literal 100
reversal_score_ranked_literal(e, weights) ==
    IF Truthy(weights)
    THEN Rat( e.RS_Rating_Reversal_Rank * Get(weights, "RS_Rating", 40)
            + e.CMF_Reversal_Rank * Get(weights, "CMF", 40)
            + e.RSI_Reversal_Rank * Get(weights, "RSI", 10)
            + e.ADX_Z_Reversal_Rank * Get(weights, "ADX_Z", 10),
            100)
    ELSE Rat( e.RS_Rating_Reversal_Rank * 40 + e.CMF_Reversal_Rank * 40
            + e.RSI_Reversal_Rank * 10 + e.ADX_Z_Reversal_Rank * 10, 1)

\* lines 273-287: the rank-based reversal score of one eligible row
reversal_score_ranked(e, weights) ==
    IF Truthy(weights)
    THEN Rat( 100 * ( e.RS_Rating_Reversal_Rank * Get(weights, "RS_Rating", 40)
                    + e.CMF_Reversal_Rank * Get(weights, "CMF", 40)
                    + e.RSI_Reversal_Rank * Get(weights, "RSI", 10)
                    + e.ADX_Z_Reversal_Rank * Get(weights, "ADX_Z", 10) ),
              SumValues(weights))
    ELSE Rat( e.RS_Rating_Reversal_Rank * 40 + e.CMF_Reversal_Rank * 40
            + e.RSI_Reversal_Rank * 10 + e.ADX_Z_Reversal_Rank * 10, 1)

\* lines 261-287: the frame eligible_reversals with its rank columns and
\* Reversal_Score_Ranked; `index` is the row's label in the main frame
eligible_reversals(frame, weights) ==
    LET ix   == eligible_index(frame)
        sub  == [k \in 1..Len(ix) |-> frame[ix[k]]]
        rs   == rank(Column(sub, "RS_Rating"), TRUE)
        cmf  == rank(Column(sub, "CMF"), FALSE)
        rsi  == rank(Column(sub, "RSI"), TRUE)
        adx  == rank(Column(sub, "ADX_Z"), TRUE)
        ranked == [k \in 1..Len(ix) |->
                     sub[k] @@ [index |-> ix[k],
                                RS_Rating_Reversal_Rank |-> rs[k],
                                CMF_Reversal_Rank |-> cmf[k],
                                RSI_Reversal_Rank |-> rsi[k],
                                ADX_Z_Reversal_Rank |-> adx[k]]]
    IN  [k \in 1..Len(ix) |->
            ranked[k] @@ [Reversal_Score_Ranked |->
                              reversal_score_ranked(ranked[k], weights)]]

\* lines 240-295 of analyze_all_sectors: the frame built from `results`,
\* scored.  The reversal rank columns live in the copy eligible_reversals
\* and do not reach the returned frame.
score_frame(rows, mom_weights, rev_weights) ==
    LET ranked == momentum_ranks(rows)
        scored == [i \in 1..Len(rows) |->
                     [ranked[i] EXCEPT
                        !.Momentum_Score = momentum_score(ranked[i], mom_weights)]]
        er     == eligible_reversals(scored, rev_weights)
    IN  [i \in 1..Len(rows) |->
            IF \E k \in 1..Len(er) : er[k].index = i
            THEN LET k == CHOOSE k \in 1..Len(er) : er[k].index = i
                 IN  [scored[i] EXCEPT
                        !.Reversal_Score = er[k].Reversal_Score_Ranked]
            ELSE scored[i]]

-----------------------------------------------------------------------------
(* streamlit_app.py: the trend replay *)

\* calculate_sector_trend, lines 520-542 (calculate_reversal_trend has the
\* same lines at 674-696): the RS rating of one entity at one replayed point
trend_rs_rating(subset_data, bench_subset) ==
    IF bench_subset # None /\ Len(bench_subset.Close) > 0
    THEN LET sector_returns    == pct_change_dropna(subset_data.Close)
             benchmark_returns == pct_change_dropna(bench_subset.Close)
             common_index      == index_intersection(sector_returns, benchmark_returns)
         IN  IF Cardinality(common_index) > 1
             THEN LET sector_cumret ==
                          XAdd(prod_one_plus(loc(sector_returns, common_index)),
                               Rat(-1, 1))
                      benchmark_cumret ==
                          XAdd(prod_one_plus(loc(benchmark_returns, common_index)),
                               Rat(-1, 1))
                  IN  IF ~IsNaN(sector_cumret) /\ ~IsNaN(benchmark_cumret)
                      THEN LET relative_perf ==
                                   XAdd(sector_cumret, XNeg(benchmark_cumret))
                               rs_rating ==
                                   XAdd(Rat(5, 1), XMul(relative_perf, Rat(25, 1)))
                           IN  PyMax(Rat(0, 1), PyMin(Rat(10, 1), rs_rating))
                      ELSE Rat(5, 1)
             ELSE Rat(5, 1)
    ELSE Rat(5, 1)


\* format_value: f"{float(val):.{decimals}f}", the value rounded to
\* `decimals` places (ties to even) and written out; the text is held as
\* the rounded number in units of 10^-decimals
format_value(val, decimals) ==
    LET scale  == IF decimals = 1 THEN 10 ELSE 100
        num    == val.n * scale
        floor  == num \div val.d
        twice  == 2 * (num - floor * val.d)
    IN  [text |-> IF twice > val.d THEN floor + 1
                  ELSE IF twice < val.d THEN floor
                  ELSE IF floor % 2 = 0 THEN floor ELSE floor + 1,
         decimals |-> decimals]

\* calculate_sector_trend, lines 544-553: the row of one ranked entity in
\* period_results; `subset_data` stands for the truncated frame through the
\* indicator values computed from it, as `data` does in analyze_sector
period_row(sect_name, subset_data) ==
    [Sector    |-> sect_name,
     ADX_Z     |-> subset_data.ADX_Z,
     RS_Rating |-> subset_data.RS_Rating,
     RSI       |-> subset_data.RSI,
     DI_Spread |-> subset_data.DI_Spread,
     CMF       |-> subset_data.CMF]

\* lines 563-575: the four rank columns, highest value rank 1, and the
\* weighted average rank in hundredths (weights 0.20, 0.40, 0.30, 0.10)
weighted_avg_rank(period_df) ==
    LET adx == rank(Column(period_df, "ADX_Z"), FALSE)
        rs  == rank(Column(period_df, "RS_Rating"), FALSE)
        rsi == rank(Column(period_df, "RSI"), FALSE)
        di  == rank(Column(period_df, "DI_Spread"), FALSE)
    IN  [i \in 1..Len(period_df) |->
            adx[i] * 20 + rs[i] * 40 + rsi[i] * 30 + di[i] * 10]

\* the scaling with the worst entity put at 0
scale_score_from_zero(w, min_rank, max_rank) ==
    Rat(10 * (max_rank - min_rank) - 10 * (w - min_rank), max_rank - min_rank)

\* line 582: 10 - ((w - min_rank) / (max_rank - min_rank)) * 9
scale_score(w, min_rank, max_rank) ==
    Rat(10 * (max_rank - min_rank) - 9 * (w - min_rank), max_rank - min_rank)

\* lines 559-586: period_df with its Weighted_Avg_Rank (hundredths) and
\* Momentum_Score columns
score_period(period_results) ==
    LET war      == weighted_avg_rank(period_results)
        all      == { war[k] : k \in 1..Len(war) }
        min_rank == CHOOSE m \in all : \A w \in all : m <= w
        max_rank == CHOOSE m \in all : \A w \in all : m >= w
    IN  [i \in 1..Len(period_results) |->
            period_results[i] @@
            [Weighted_Avg_Rank |-> war[i],
             Momentum_Score |->
                 IF Len(period_results) > 1 /\ max_rank > min_rank
                 THEN scale_score(war[i], min_rank, max_rank)
                 ELSE Rat(5, 1)]]

\* Series.rank(ascending=False, method='min') of a column of rationals
rank_descending(values) ==
    [i \in 1..Len(values) |->
        1 + Cardinality({ k \in 1..Len(values) :
                            values[k].n * values[i].d > values[i].n * values[k].d })]

\* lines 588-601: the record of the selected sector, if it has a row
trend_record(period_df, sector_name) ==
    IF \E k \in 1..Len(period_df) : period_df[k].Sector = sector_name
    THEN LET k == CHOOSE k \in 1..Len(period_df) : period_df[k].Sector = sector_name
         IN  << [Sector         |-> sector_name,
                 Momentum_Score |-> format_value(period_df[k].Momentum_Score, 1),
                 Rank           |-> rank_descending(Column(period_df, "Momentum_Score"))[k]] >>
    ELSE <<>>

-----------------------------------------------------------------------------
(* Inputs *)

\* config.SECTORS: the benchmark's key, and the sector keys in dict order
Benchmark == "Nifty 50"

SectorNames ==
    <<"PSU Bank", "Pvt Bank", "IT", "Pharma", "FMCG", "Auto", "Metal", "Realty">>

Snapshot(rsi, adx_z, cmf, rs_rating, di_spread) ==
    [ok |-> TRUE, RSI |-> rsi, ADX_Z |-> adx_z, CMF |-> cmf,
     RS_Rating |-> rs_rating, DI_Spread |-> di_spread]

\* Indicator snapshots an entity may have.  The first, sixth and seventh are
\* the three entities of the end-to-end scenario (RSI 25/45/60, ADX_Z
\* -1.0/0.2/1.5, CMF 0.15/-0.05/0.30, RS_Rating 3/5/8); the others step from
\* the first to the sixth one indicator at a time, so that the set holds
\* pairs that differ in exactly one indicator, ties on every indicator, and
\* entities of every status.
Profiles ==
    { Snapshot(25, -10, 15, 30, -5),      \* BUY_DIV
      Snapshot(25, -10, 15, 50, -5),      \* BUY_DIV
      Snapshot(45, -10, 15, 50, -5),      \* Watch
      Snapshot(45,   2, 15, 50, -5),      \* Watch
      Snapshot(45,   2,  5, 50,  0),      \* Watch
      Snapshot(45,   2, -5, 50,  0),      \* No
      Snapshot(60,  15, 30, 80, 10) }     \* No

\* Snapshots around every fixed tier boundary (RSI 40 and 50, ADX_Z -0.5
\* and 0.5, CMF 0.10 and 0)
StatusProfiles ==
    { Snapshot(rsi, adx_z, cmf, 50, 0) :
        rsi \in {39, 40, 41, 49, 50, 51},
        adx_z \in {-6, -5, -4, 4, 5, 6},
        cmf \in {-1, 0, 1, 9, 10, 11} }

RerunProfiles ==
    { Snapshot(25, -10, 15, 30, -5),
      Snapshot(45,   2,  5, 50,  0),
      Snapshot(60,  15, 30, 80, 10) }

\* Snapshots for tables longer than MaxEntities: one of each status, the two
\* middle ones tied on RSI and RS_Rating, the first two on ADX_Z and CMF
TieProfiles ==
    { Snapshot(25, -10, 15, 30, -5),
      Snapshot(45, -10, 15, 50, -5),
      Snapshot(45,   2,  5, 50,  0),
      Snapshot(60,  15, 30, 80, 10) }

\* the benchmark's own entry of the dict
BenchmarkItem == [name |-> Benchmark, data |-> Snapshot(25, -10, 15, 30, -5)]

\* the dicts {Nifty 50: ..., sector: data, ...} with at most MaxEntities
\* sectors whose data is drawn from `profiles`
Batches(profiles) ==
    UNION { { <<BenchmarkItem>> \o [i \in 1..n |-> [name |-> SectorNames[i], data |-> f[i]]] :
                f \in [1..n -> profiles] } : n \in 0..MaxEntities }

\* the dicts with exactly MaxEntities + 2 sectors
LongBatches(profiles) ==
    { <<BenchmarkItem>> \o
          [i \in 1..(MaxEntities + 2) |-> [name |-> SectorNames[i], data |-> f[i]]] :
        f \in [1..(MaxEntities + 2) -> profiles] }

\* momentum weights that sum to 100, and momentum weights that give
\* RS_Rating no weight and sum to 80
MomentumRSHeavy == [ADX_Z |-> 10, RS_Rating |-> 60, RSI |-> 20, DI_Spread |-> 10]

MomentumNoRS == [ADX_Z |-> 50, RS_Rating |-> 0, RSI |-> 25, DI_Spread |-> 5]

\* reversal weights in the default proportions summing to 10, and unequal
\* reversal weights with one of them 0
ReversalTenth == [RS_Rating |-> 4, CMF |-> 4, RSI |-> 1, ADX_Z |-> 1]

ReversalNoCMF == [RS_Rating |-> 10, CMF |-> 0, RSI |-> 30, ADX_Z |-> 5]

Weights(mw, rw) == [momentum |-> mw, reversal |-> rw]

\* The two weight dicts of a call; None leaves the default in force.
\* Neither score reads the other's weights, so every momentum choice and
\* every reversal choice occurs, but not every combination of the two.
WeightChoices ==
    { Weights(None, None),
      Weights(None, DEFAULT_REVERSAL_WEIGHTS),
      Weights(MomentumRSHeavy, DEFAULT_REVERSAL_WEIGHTS),
      Weights(MomentumRSHeavy, ReversalNoCMF),
      Weights(MomentumNoRS, ReversalTenth) }

\* the sidebar's thresholds at their defaults (RSI 40, ADX_Z 2.0, CMF 0.0)
SidebarThresholds == [RSI |-> 40, ADX_Z |-> 20, CMF |-> 0]

ThresholdChoices == { None, SidebarThresholds }

StatusThresholdChoices ==
    { None,
      SidebarThresholds,
      [RSI |-> 39, ADX_Z |-> 20, CMF |-> 0],
      [RSI |-> 50, ADX_Z |-> -5, CMF |-> 0],
      [RSI |-> 60, ADX_Z |-> 5, CMF |-> 0],
      [ADX_Z |-> 5] }

-----------------------------------------------------------------------------
(* The call analyze_all_sectors(sector_data, benchmark_data,               *)
(* momentum_weights, reversal_weights, symbols_dict, interval,             *)
(* reversal_thresholds) as a state machine                                 *)

Unset == [kind |-> "unset"]

NoneReturned == [kind |-> "None"]

DataFrame(rows) == [kind |-> "DataFrame", rows |-> rows]

\* lines 223-224
EffectiveMomentumWeights ==
    IF momentum_weights = None THEN DEFAULT_MOMENTUM_WEIGHTS ELSE momentum_weights

\* a call whose `results` is a list shared between calls
EnterSharingResults(mw, rw) ==
    /\ pc \in {"idle", "done"}
    /\ momentum_weights' = mw
    /\ reversal_weights' = rw
    /\ pc' = "loop"
    /\ idx' = 1
    /\ UNCHANGED <<sector_data, reversal_thresholds, results, df, first_call>>
    /\ UNCHANGED outside_call

\* entry of a call, lines 223-226: a fresh `results`
Enter(mw, rw) ==
    /\ pc \in {"idle", "done"}
    /\ momentum_weights' = mw
    /\ reversal_weights' = rw
    /\ pc' = "loop"
    /\ idx' = 1
    /\ results' = <<>>
    /\ UNCHANGED <<sector_data, reversal_thresholds, df, first_call>>
    /\ UNCHANGED outside_call

\* the first call, with the arguments as given
Call ==
    /\ pc = "idle"
    /\ Enter(momentum_weights, reversal_weights)

\* a later call on the same data and thresholds, the weights as the
\* sidebar has them by then
CallAgain ==
    /\ pc = "done"
    /\ \E w \in WeightChoices : Enter(w.momentum, w.reversal)

\* the loop iteration with a failing entity ending the loop: a failure
\* that is not caught per entity
AnalyzeNextAbortingOnFailure ==
    /\ pc = "loop"
    /\ idx <= Len(sector_data)
    /\ LET item   == sector_data[idx]
           result == analyze_sector(item.name, item.data, reversal_weights,
                                    reversal_thresholds)
       IN  /\ results' = IF item.name = Benchmark THEN results
                         ELSE IF result # None THEN Append(results, result)
                         ELSE results
           /\ idx' = IF item.name # Benchmark /\ result = None
                     THEN Len(sector_data) + 1 ELSE idx + 1
    /\ UNCHANGED <<sector_data, momentum_weights, reversal_weights,
                   reversal_thresholds, pc, df, first_call>>
    /\ UNCHANGED outside_call

\* the loop iteration without the benchmark test of line 229
AnalyzeNextRankingBenchmark ==
    /\ pc = "loop"
    /\ idx <= Len(sector_data)
    /\ LET item   == sector_data[idx]
           result == analyze_sector(item.name, item.data, reversal_weights,
                                    reversal_thresholds)
       IN  results' = IF result # None THEN Append(results, result) ELSE results
    /\ idx' = idx + 1
    /\ UNCHANGED <<sector_data, momentum_weights, reversal_weights,
                   reversal_thresholds, pc, df, first_call>>
    /\ UNCHANGED outside_call

\* the loop iteration putting each result at the front of the list
AnalyzeNextPrepending ==
    /\ pc = "loop"
    /\ idx <= Len(sector_data)
    /\ LET item   == sector_data[idx]
           result == analyze_sector(item.name, item.data, reversal_weights,
                                    reversal_thresholds)
       IN  results' = IF item.name = Benchmark THEN results
                      ELSE IF result # None THEN <<result>> \o results
                      ELSE results
    /\ idx' = idx + 1
    /\ UNCHANGED <<sector_data, momentum_weights, reversal_weights,
                   reversal_thresholds, pc, df, first_call>>
    /\ UNCHANGED outside_call

\* one iteration of the loop, lines 228-235
AnalyzeNext ==
    /\ pc = "loop"
    /\ idx <= Len(sector_data)
    /\ LET item   == sector_data[idx]
           result == analyze_sector(item.name, item.data, reversal_weights,
                                    reversal_thresholds)
       IN  results' = IF item.name = Benchmark THEN results
                      ELSE IF result # None THEN Append(results, result)
                      ELSE results
    /\ idx' = idx + 1
    /\ UNCHANGED <<sector_data, momentum_weights, reversal_weights,
                   reversal_thresholds, pc, df, first_call>>
    /\ UNCHANGED outside_call

\* the scoring without the test `if not results` of lines 237-238
FinishWithoutEmptyCheck ==
    /\ pc = "loop"
    /\ idx > Len(sector_data)
    /\ df' = DataFrame(score_frame(results, EffectiveMomentumWeights,
                                   reversal_weights))
    /\ first_call' =
          IF first_call = Unset
          THEN [kind |-> "call",
                momentum_weights |-> momentum_weights,
                reversal_weights |-> reversal_weights,
                df |-> df',
                other_since |-> FALSE]
          ELSE [first_call EXCEPT
                  !.other_since =
                      \/ @
                      \/ momentum_weights # first_call.momentum_weights
                      \/ reversal_weights # first_call.reversal_weights]
    /\ pc' = "done"
    /\ UNCHANGED <<sector_data, momentum_weights, reversal_weights,
                   reversal_thresholds, idx, results>>
    /\ UNCHANGED outside_call

\* the scoring run before the loop has seen every entity
FinishBeforeLoopEnds ==
    /\ pc = "loop"
    /\ idx > 1
    /\ df' = IF results = <<>> THEN NoneReturned
             ELSE DataFrame(score_frame(results, EffectiveMomentumWeights,
                                        reversal_weights))
    /\ first_call' =
          IF first_call = Unset
          THEN [kind |-> "call",
                momentum_weights |-> momentum_weights,
                reversal_weights |-> reversal_weights,
                df |-> df',
                other_since |-> FALSE]
          ELSE [first_call EXCEPT
                  !.other_since =
                      \/ @
                      \/ momentum_weights # first_call.momentum_weights
                      \/ reversal_weights # first_call.reversal_weights]
    /\ pc' = "done"
    /\ UNCHANGED <<sector_data, momentum_weights, reversal_weights,
                   reversal_thresholds, idx, results>>
    /\ UNCHANGED outside_call

\* after the loop, lines 237-295
Finish ==
    /\ pc = "loop"
    /\ idx > Len(sector_data)
    /\ df' = IF results = <<>> THEN NoneReturned
             ELSE DataFrame(score_frame(results, EffectiveMomentumWeights,
                                        reversal_weights))
    /\ first_call' =
          IF first_call = Unset
          THEN [kind |-> "call",
                momentum_weights |-> momentum_weights,
                reversal_weights |-> reversal_weights,
                df |-> df',
                other_since |-> FALSE]
          ELSE [first_call EXCEPT
                  !.other_since =
                      \/ @
                      \/ momentum_weights # first_call.momentum_weights
                      \/ reversal_weights # first_call.reversal_weights]
    /\ pc' = "done"
    /\ UNCHANGED <<sector_data, momentum_weights, reversal_weights,
                   reversal_thresholds, idx, results>>
    /\ UNCHANGED outside_call

\* no function of data_fetcher.py is called
NoFetch ==
    /\ data_cache = <<>>
    /\ now = 0
    /\ LOCAL_CACHE_AVAILABLE = FALSE
    /\ environment = None
    /\ last_fetch = None
    /\ last_failed = {}
    /\ last_clear = 0
    /\ futures = <<>>
    /\ fetched_data = <<>>
    /\ failed_sectors = <<>>
    /\ completed = 0
    /\ progress_calls = <<>>
    /\ parallel_pc = "idle"

\* no trend replay is made
NoTrend ==
    /\ trend_pc = "idle"
    /\ period_i = 0
    /\ trend_data = <<>>
    /\ first_trend = Unset

InitCall ==
    /\ NoTrend
    /\ NoFetch
    /\ pc = "idle"
    /\ idx = 0
    /\ results = <<>>
    /\ df = Unset
    /\ first_call = Unset
    /\ args = None
    /\ value = None

\* one call on any batch, weights and thresholds
Init ==
    /\ sector_data \in Batches(Profiles)
    /\ \E w \in WeightChoices : /\ momentum_weights = w.momentum
                                /\ reversal_weights = w.reversal
    /\ reversal_thresholds \in ThresholdChoices
    /\ InitCall

Next == Call \/ AnalyzeNext \/ Finish

Spec == Init /\ [][Next]_vars

\* one call on one entity near the tier boundaries
InitStatus ==
    /\ sector_data \in { <<BenchmarkItem, [name |-> SectorNames[1], data |-> d]>> :
                           d \in StatusProfiles }
    /\ momentum_weights = None
    /\ reversal_weights = None
    /\ reversal_thresholds \in StatusThresholdChoices
    /\ InitCall

SpecStatus == InitStatus /\ [][Next]_vars

\* one call with the default weights on any batch, or on a longer batch
\* in which three and more entities can tie
InitTies ==
    /\ sector_data \in Batches(Profiles) \cup LongBatches(TieProfiles)
    /\ momentum_weights = None
    /\ reversal_weights = None
    /\ reversal_thresholds \in ThresholdChoices
    /\ InitCall

SpecTies == InitTies /\ [][Next]_vars

\* repeated calls on the same data: the first with the default weights,
\* the later ones with any weights
InitRerun ==
    /\ sector_data \in Batches(RerunProfiles)
    /\ momentum_weights = None
    /\ reversal_weights = None
    /\ reversal_thresholds \in ThresholdChoices
    /\ InitCall

NextRerun == Call \/ CallAgain \/ AnalyzeNext \/ Finish

SpecRerun == InitRerun /\ [][NextRerun]_vars

-----------------------------------------------------------------------------
(* Batches with failing entities and the benchmark anywhere *)

\* lines 223-295 as a function of the arguments: what a call returns
analyze_all_sectors(sector_data_dict, mom_weights, rev_weights, thresholds) ==
    LET each == [i \in 1..Len(sector_data_dict) |->
                    IF sector_data_dict[i].name = Benchmark THEN None
                    ELSE analyze_sector(sector_data_dict[i].name,
                                        sector_data_dict[i].data,
                                        rev_weights, thresholds)]
        rows == SelectSeq(each, LAMBDA r : r # None)
    IN  IF rows = <<>> THEN NoneReturned
        ELSE DataFrame(score_frame(rows,
                                   IF mom_weights = None
                                   THEN DEFAULT_MOMENTUM_WEIGHTS ELSE mom_weights,
                                   rev_weights))

\* price data on which an indicator function raises
Failing == [ok |-> FALSE]

BatchProfiles ==
    { Snapshot(25, -10, 15, 30, -5),      \* BUY_DIV
      Snapshot(45,   2,  5, 50,  0),      \* Watch
      Snapshot(60,  15, 30, 80, 10) }     \* No

\* the sequence s with x put in at position k
InsertAt(s, k, x) == SubSeq(s, 1, k - 1) \o <<x>> \o SubSeq(s, k, Len(s))

\* the dicts of at most MaxEntities sectors, each with good or failing
\* data, without the benchmark's entry or with it at any position
AnyBatches ==
    UNION { LET plain == { [i \in 1..n |-> [name |-> SectorNames[i], data |-> f[i]]] :
                             f \in [1..n -> BatchProfiles \cup {Failing}] }
            IN  plain \cup { InsertAt(b, k, BenchmarkItem) : b \in plain, k \in 1..(n + 1) }
          : n \in 0..MaxEntities }

\* momentum weights all left at 0
MomentumAllZero == [ADX_Z |-> 0, RS_Rating |-> 0, RSI |-> 0, DI_Spread |-> 0]

BatchWeightChoices ==
    { Weights(None, None),
      Weights(MomentumNoRS, ReversalTenth),
      Weights(MomentumAllZero, DEFAULT_REVERSAL_WEIGHTS) }

InitBatch ==
    /\ sector_data \in AnyBatches
    /\ \E w \in BatchWeightChoices : /\ momentum_weights = w.momentum
                                     /\ reversal_weights = w.reversal
    /\ reversal_thresholds \in ThresholdChoices
    /\ InitCall

SpecBatch == InitBatch /\ [][Next]_vars

-----------------------------------------------------------------------------
(* The RS rating applied on its own *)

\* no call of analyze_all_sectors is made
NoCall ==
    /\ sector_data = <<>>
    /\ momentum_weights = None
    /\ reversal_weights = None
    /\ reversal_thresholds = None
    /\ pc = "idle"
    /\ idx = 0
    /\ results = <<>>
    /\ df = Unset
    /\ first_call = Unset

\* the price frames with a bar at some of the timestamps 1..MaxBars, each
\* close drawn from `prices`
Frames(prices) ==
    UNION { { [Close |-> LET stamps == SelectSeq([t \in 1..MaxBars |-> t],
                                                LAMBDA t : t \in S)
                         IN  [k \in 1..Len(stamps) |->
                                 [t |-> stamps[k], value |-> f[stamps[k]]]]] :
                f \in [S -> prices] } : S \in SUBSET (1..MaxBars) }

\* closes of an entity: flat, +10 %, x11 (a cumulative return of 10), and 0
SectorCloses == {0, 10, 11, 110}

BenchmarkCloses == {10, 110}

\* lines 84-98 of analyze_sector applied to the arguments
RateInAnalysis ==
    /\ value = None
    /\ value' = [by |-> "analyze_sector",
                 RS_Rating |-> relative_strength_vs_benchmark(
                                   args.data, args.benchmark_data)]
    /\ UNCHANGED <<other_vars, call_vars, args, trend_vars>>

\* lines 520-542 of calculate_sector_trend applied to the arguments
RateInTrend ==
    /\ value = None
    /\ value' = [by |-> "calculate_sector_trend",
                 RS_Rating |-> trend_rs_rating(args.data, args.benchmark_data)]
    /\ UNCHANGED <<other_vars, call_vars, args, trend_vars>>

InitRating ==
    /\ NoCall
    /\ NoTrend
    /\ NoFetch
    /\ args \in { [data |-> d, benchmark_data |-> b] :
                    d \in Frames(SectorCloses),
                    b \in Frames(BenchmarkCloses) \cup {None} }
    /\ value = None

NextRating == RateInAnalysis \/ RateInTrend

SpecRating == InitRating /\ [][NextRating]_vars

-----------------------------------------------------------------------------
(* The absolute reversal score applied on its own *)

\* reversal weights without the ADX_Z key
ReversalThreeKeys == [RS_Rating |-> 50, CMF |-> 30, RSI |-> 20]

ScoreWeightChoices ==
    { DEFAULT_REVERSAL_WEIGHTS, ReversalTenth, ReversalNoCMF, ReversalThreeKeys,
      [RS_Rating |-> 0, CMF |-> 0, RSI |-> 0, ADX_Z |-> 7] }

\* indicator values over their ranges: RSI 0..100, ADX_Z -2.0..1.5, CMF
\* -1..1, RS_Rating 0..10
ScoreArguments ==
    { [rsi |-> rsi, adx_z |-> adx_z, cmf |-> cmf, rs_rating |-> rs_rating,
       weights |-> weights] :
        rsi \in {0, 25, 45, 100}, adx_z \in {-20, -10, 0, 2, 15},
        cmf \in {-100, -5, 15, 100}, rs_rating \in {0, 30, 50, 100},
        weights \in ScoreWeightChoices }

\* calculate_reversal_score applied to the arguments
ApplyReversalScore ==
    /\ value = None
    /\ value' = [by |-> "calculate_reversal_score",
                 Reversal_Score |-> calculate_reversal_score(
                                        args.rsi, args.adx_z, args.cmf,
                                        args.rs_rating, args.weights)]
    /\ UNCHANGED <<other_vars, call_vars, args, trend_vars>>

InitScore ==
    /\ NoCall
    /\ NoTrend
    /\ NoFetch
    /\ args \in ScoreArguments
    /\ value = None

NextScore == ApplyReversalScore

SpecScore == InitScore /\ [][NextScore]_vars

-----------------------------------------------------------------------------
(* The latest indicator values applied on their own *)

\* the series of at most MaxSeries values, each NaN or one of `numbers`
IndicatorSeries(numbers) ==
    UNION { [1..n -> {NaN} \cup {Rat(v, 1) : v \in numbers}] : n \in 0..MaxSeries }

\* lines 73-76 of analyze_sector applied to the four indicator series
TakeLatest ==
    /\ value = None
    /\ value' = [by        |-> "analyze_sector",
                 RSI       |-> latest_or_default(args.rsi, Rat(50, 1)),
                 ADX       |-> latest_or_default(args.adx, Rat(0, 1)),
                 DI_Spread |-> latest_or_default(args.di_spread, Rat(0, 1)),
                 CMF       |-> latest_or_default(args.cmf, Rat(0, 1))]
    /\ UNCHANGED <<other_vars, call_vars, args, trend_vars>>

\* the series calculate_rsi, calculate_adx and calculate_cmf returned
InitLatest ==
    /\ NoCall
    /\ NoTrend
    /\ NoFetch
    /\ args \in { [rsi |-> rsi, adx |-> adx, di_spread |-> di_spread, cmf |-> cmf] :
                    rsi \in IndicatorSeries({30, 70}),
                    adx \in IndicatorSeries({25}),
                    di_spread \in IndicatorSeries({-5}),
                    cmf \in IndicatorSeries({15}) }
    /\ value = None

NextLatest == TakeLatest

SpecLatest == InitLatest /\ [][NextLatest]_vars

-----------------------------------------------------------------------------
(* The trend replay: calculate_sector_trend (streamlit_app.py 465-615;     *)
(* calculate_reversal_trend, 618 on, has the same loop) and                 *)
(* calculate_company_trend (company_analysis.py 54-143)                     *)

\* A price frame is held here by what the replay reads of it: n, its number
\* of bars, whose index is taken sorted ascending and is written 1..n; and
\* raises, the bar counts c for which an indicator function raises on the
\* frame cut to its first c bars.

\* `if len(subset_data) < 14`
MinTrendBars == 14

\* len(frame.iloc[:-i+1] if i > 1 else frame)
subset_len(frame, i) == IF i > 1 THEN Max(0, frame.n - (i - 1)) ELSE frame.n

\* f'T-{i-1} ({date_str})' if i > 1 else f'T ({date_str})', the date being
\* data.index[-i]: the label is held as the number after 'T-' (0 for 'T')
\* and the timestamp
period_label(data, i) == [back |-> i - 1, date |-> data.n - i + 1]

\* the entities of all_sector_data that reach period_results at point i
period_results(all_sector_data, i) ==
    SelectSeq(all_sector_data,
              LAMBDA item : /\ item.name # Benchmark
                            /\ subset_len(item.data, i) >= MinTrendBars)

\* an indicator function raises inside the try block of point i
period_raises(all_sector_data, i) ==
    \E k \in 1..Len(all_sector_data) :
        /\ all_sector_data[k].name # Benchmark
        /\ subset_len(all_sector_data[k].data, i) >= MinTrendBars
        /\ subset_len(all_sector_data[k].data, i) \in all_sector_data[k].data.raises

\* lines 487-605 of calculate_sector_trend: the records point i adds
sector_period(sector_name, data, all_sector_data, i) ==
    LET rows == period_results(all_sector_data, i)
    IN  IF period_raises(all_sector_data, i) THEN <<>>
        ELSE IF rows = <<>> THEN <<>>
        ELSE IF \E k \in 1..Len(rows) : rows[k].name = sector_name
             THEN << [Period  |-> period_label(data, i),
                      bars    |-> subset_len(data, i),
                      sectors |-> Len(rows)] >>
             ELSE <<>>

\* lines 76-135 of calculate_company_trend: the records point i adds
company_period(company_data, i) ==
    IF subset_len(company_data, i) < MinTrendBars THEN <<>>
    ELSE IF subset_len(company_data, i) \in company_data.raises THEN <<>>
    ELSE << [Period |-> period_label(company_data, i),
             bars   |-> subset_len(company_data, i)] >>

\* entry of a replay: lines 481-486 (company: 70-75)
TrendEnter ==
    /\ trend_pc \in {"idle", "done"}
    /\ IF args.data = None \/ args.data.n < args.periods
       THEN /\ trend_pc' = "done"
            /\ value' = NoneReturned
            /\ first_trend' = IF first_trend = Unset THEN NoneReturned ELSE first_trend
            /\ UNCHANGED <<period_i, trend_data>>
       ELSE /\ trend_pc' = "loop"
            /\ period_i' = args.periods
            /\ trend_data' = <<>>
            /\ UNCHANGED <<value, first_trend>>
    /\ UNCHANGED <<other_vars, call_vars, args>>

\* one pass of `for i in range(periods, 0, -1)` that puts its record first
TrendPeriodNewestFirst ==
    /\ trend_pc = "loop"
    /\ period_i >= 1
    /\ trend_data' =
          (IF args.fn = "calculate_sector_trend"
           THEN sector_period(args.name, args.data, args.all_data, period_i)
           ELSE company_period(args.data, period_i)) \o trend_data
    /\ period_i' = period_i - 1
    /\ UNCHANGED <<other_vars, call_vars, args, value, trend_pc, first_trend>>

\* one pass of `for i in range(periods, 0, -1)`
TrendPeriod ==
    /\ trend_pc = "loop"
    /\ period_i >= 1
    /\ trend_data' = trend_data \o
          IF args.fn = "calculate_sector_trend"
          THEN sector_period(args.name, args.data, args.all_data, period_i)
          ELSE company_period(args.data, period_i)
    /\ period_i' = period_i - 1
    /\ UNCHANGED <<other_vars, call_vars, args, value, trend_pc, first_trend>>

\* after the loop: lines 607-611 (company: 137-141)
TrendReturn ==
    /\ trend_pc = "loop"
    /\ period_i = 0
    /\ value' = IF trend_data = <<>> THEN NoneReturned ELSE DataFrame(trend_data)
    /\ first_trend' = IF first_trend = Unset THEN value' ELSE first_trend
    /\ trend_pc' = "done"
    /\ UNCHANGED <<other_vars, call_vars, args, period_i, trend_data>>

\* the frames of MinTrendBars - 2 .. MinTrendBars + MaxPeriods bars, and of
\* 2 bars, on which nothing raises or the full or nearly full frame does
TrendFrames ==
    UNION { { [n |-> n, raises |-> r] : r \in {{}, {n}, {n - 1}} } :
              n \in {2} \cup {MinTrendBars + d : d \in (-2)..MaxPeriods} }

\* another entity of the dict: too short at every point, or long enough
PeerFrames == { [n |-> MinTrendBars - 1, raises |-> {}],
                [n |-> MinTrendBars + 1, raises |-> {}],
                [n |-> MinTrendBars + 1, raises |-> {MinTrendBars + 1}] }

TrendBenchmarkItem == [name |-> Benchmark, data |-> [n |-> MinTrendBars + 1, raises |-> {}]]

\* the selected entity is the first sector of the dict; the dict holds the
\* benchmark, the selected entity and at most one more
TrendArguments ==
    { [fn |-> "calculate_sector_trend", name |-> SectorNames[1], data |-> d,
       all_data |-> <<TrendBenchmarkItem, [name |-> SectorNames[1], data |-> d]>> \o peers,
       periods |-> k] :
        d \in TrendFrames, k \in 1..MaxPeriods,
        peers \in {<<>>} \cup { <<[name |-> SectorNames[2], data |-> f]>> : f \in PeerFrames } }
    \cup
    { [fn |-> "calculate_company_trend", name |-> "COMPANY", data |-> d,
       all_data |-> <<>>, periods |-> k] :
        d \in TrendFrames \cup {None}, k \in 1..MaxPeriods }

InitTrend ==
    /\ NoCall
    /\ NoFetch
    /\ args \in TrendArguments
    /\ value = None
    /\ trend_pc = "idle"
    /\ period_i = 0
    /\ trend_data = <<>>
    /\ first_trend = Unset

NextTrend == TrendEnter \/ TrendPeriod \/ TrendReturn

SpecTrend == InitTrend /\ [][NextTrend]_vars

-----------------------------------------------------------------------------
(* The bars each point of a replay is computed from: lines 486-510 of      *)
(* calculate_sector_trend (calculate_reversal_trend 641-665 and            *)
(* calculate_company_trend 76-93 cut their frames the same way)            *)

\* A frame is held here by its index alone: the ascending sequence of the
\* timestamps of its bars.

\* frame.iloc[:-i+1] if i > 1 else frame
iloc_upto(index, i) == IF i > 1 THEN SubSeq(index, 1, Len(index) - (i - 1)) ELSE index

\* data.index[-i], the date of the label of point i
period_date(data, i) == data[Len(data) - i + 1]

\* what the indicator functions are given at point i: for every entity that
\* passes the 14-bar test its subset_data, and the bench_subset
point_inputs(data, benchmark_data, all_sector_data, i) ==
    LET ranked == SelectSeq(all_sector_data,
                            LAMBDA item : /\ item.name # Benchmark
                                          /\ Len(iloc_upto(item.data, i)) >= MinTrendBars)
    IN  [i            |-> i,
         date         |-> period_date(data, i),
         subset_data  |-> [k \in 1..Len(ranked) |->
                              [Sector |-> ranked[k].name, index |-> iloc_upto(ranked[k].data, i)]],
         bench_subset |-> iloc_upto(benchmark_data, i)]

\* the points of `for i in range(periods, 0, -1)`, in the order of the loop
replay_inputs(data, benchmark_data, all_sector_data, periods) ==
    [j \in 1..periods |-> point_inputs(data, benchmark_data, all_sector_data, periods + 1 - j)]

\* lines 481-510 applied to the arguments
CutFrames ==
    /\ value = None
    /\ value' = IF Len(args.data) < args.periods
                THEN NoneReturned
                ELSE [kind   |-> "points",
                      points |-> replay_inputs(args.data, args.benchmark_data,
                                               args.all_sector_data, args.periods)]
    /\ UNCHANGED <<other_vars, call_vars, args, trend_vars>>

\* the last timestamp any input frame has
LastStamp == MinTrendBars + 2

\* the index holding the timestamps of S, ascending
index_of(S) == SelectSeq([t \in 1..LastStamp |-> t], LAMBDA t : t \in S)

\* daily indexes up to LastStamp with at most `gaps` days missing (a
\* missing last day is an index that ends earlier)
DailyIndexes(gaps) ==
    { index_of((1..LastStamp) \ G) : G \in { G \in SUBSET (1..LastStamp) : Cardinality(G) <= gaps } }

\* the selected entity, one peer and the benchmark; the dict holds the
\* benchmark, the selected entity and the peer
InitCut ==
    /\ NoCall
    /\ NoTrend
    /\ NoFetch
    /\ args \in { [data |-> d, benchmark_data |-> b, periods |-> k,
                   all_sector_data |-> << [name |-> Benchmark, data |-> b],
                                           [name |-> SectorNames[1], data |-> d],
                                           [name |-> SectorNames[2], data |-> p] >>] :
                    d \in DailyIndexes(1), p \in DailyIndexes(2),
                    b \in {index_of(1..LastStamp), index_of(1..(LastStamp - 1))},
                    k \in 1..MaxPeriods }
    /\ value = None

NextCut == CutFrames

SpecCut == InitCut /\ [][NextCut]_vars

-----------------------------------------------------------------------------
(* One point of calculate_sector_trend scored on its own, next to the      *)
(* scorer on the same data: lines 499-602                                  *)

\* lines 499-554: period_results of a point whose truncated frames are the
\* entries of all_sector_data
collect_period(all_sector_data) ==
    LET ranked == SelectSeq(all_sector_data, LAMBDA item : item.name # Benchmark)
    IN  [k \in 1..Len(ranked) |-> period_row(ranked[k].name, ranked[k].data)]

\* the point is scored by the replay, and analyze_all_sectors is applied to
\* the same frames with the momentum weights in force
ScorePoint ==
    /\ value = None
    /\ LET collected == collect_period(args.all_sector_data)
           period_df == IF collected = <<>> THEN <<>>
                        ELSE score_period(collected)
       IN  value' = [kind      |-> "point",
                     period_df |-> period_df,
                     record    |-> trend_record(period_df, args.sector_name),
                     scorer    |-> analyze_all_sectors(args.all_sector_data,
                                                       args.momentum_weights, None, None)]
    /\ UNCHANGED <<other_vars, call_vars, args, trend_vars>>

\* the selected sector is the first of the dict
InitPoint ==
    /\ NoCall
    /\ NoTrend
    /\ NoFetch
    /\ args \in { [sector_name |-> SectorNames[1], all_sector_data |-> b,
                   momentum_weights |-> w] :
                    b \in Batches(Profiles),
                    w \in {None, MomentumRSHeavy, MomentumNoRS} }
    /\ value = None

NextPoint == ScorePoint

SpecPoint == InitPoint /\ [][NextPoint]_vars

-----------------------------------------------------------------------------
(* calculate_historical_momentum_performance (streamlit_app.py 819-1002)   *)
(* applied on its own                                                       *)

\* A frame is held here as [index, Close]: the ascending timestamps of its
\* bars and the close of each bar; an entity's `data` carries in addition
\* the indicator values the indicator functions make of its truncations,
\* taken the same at every date.

Min(a, b) == IF a <= b THEN a ELSE b

\* `if len(subset_data) < 50`
MinHistoryBars == 50

\* the two horizons of calc_forward_return
ForwardWeek == 7

ForwardFortnight == 14

\* lines 839-850: the number of dates looked back over; None below 10
lookback_periods(benchmark_data, interval) ==
    IF interval = "1wk" THEN Min(26, Len(benchmark_data.index) - 20)
    ELSE IF interval = "1h" THEN Min(Len(benchmark_data.index) - 20, 500)
    ELSE Min(126, Len(benchmark_data.index) - 20)

\* frame.iloc[:-i], i > 0
iloc_before(index, i) == SubSeq(index, 1, Len(index) - i)

\* lines 859-911: the rows of period_results at date i, each with the index
\* of the subset_data its indicators were computed from
historical_period_results(sector_data_dict, i) ==
    LET ranked == SelectSeq(sector_data_dict,
                            LAMBDA item : /\ item.name # Benchmark
                                          /\ Len(iloc_before(item.data.index, i)) >= MinHistoryBars)
    IN  [k \in 1..Len(ranked) |->
            period_row(ranked[k].name, ranked[k].data)
            @@ [subset_index |-> iloc_before(ranked[k].data.index, i)]]

\* lines 917-944: the weighted average rank under momentum_weights (times
\* total_weight) and the Momentum_Score scaled from it
historical_scores(period_df, mom_weights) ==
    LET adx == rank(Column(period_df, "ADX_Z"), FALSE)
        rs  == rank(Column(period_df, "RS_Rating"), FALSE)
        rsi == rank(Column(period_df, "RSI"), FALSE)
        di  == rank(Column(period_df, "DI_Spread"), FALSE)
        war == [k \in 1..Len(period_df) |->
                   adx[k] * Get(mom_weights, "ADX_Z", 20)
                 + rs[k] * Get(mom_weights, "RS_Rating", 40)
                 + rsi[k] * Get(mom_weights, "RSI", 30)
                 + di[k] * Get(mom_weights, "DI_Spread", 10)]
        all      == { war[k] : k \in 1..Len(war) }
        min_rank == CHOOSE m \in all : \A w \in all : m <= w
        max_rank == CHOOSE m \in all : \A w \in all : m >= w
    IN  [k \in 1..Len(period_df) |->
            period_df[k] @@
            [Momentum_Score |->
                 IF Len(period_df) > 1 /\ max_rank > min_rank
                 THEN scale_score(war[k], min_rank, max_rank)
                 ELSE Rat(5, 1)]]

\* lines 947-948: sort_values('Momentum_Score', ascending=False).head(2).
\* The sort is not stable: rows with equal scores come in frame order when
\* `forwards`, in reverse frame order otherwise.
top_2(period_df, forwards) ==
    LET before(a, b) ==
            LET sa == period_df[a].Momentum_Score
                sb == period_df[b].Momentum_Score
            IN  \/ sa.n * sb.d > sb.n * sa.d
                \/ sa = sb /\ (IF forwards THEN a < b ELSE a > b)
        place(a) == 1 + Cardinality({ b \in 1..Len(period_df) : before(b, a) })
    IN  [p \in 1..Min(2, Len(period_df)) |->
            period_df[CHOOSE a \in 1..Len(period_df) : place(a) = p]]

\* round(x, 2) of a finite number, ties to even
round_2(x) ==
    LET num   == x.n * 100
        floor == num \div x.d
        twice == 2 * (num - floor * x.d)
    IN  Rat(IF twice > x.d THEN floor + 1
            ELSE IF twice < x.d THEN floor
            ELSE IF floor % 2 = 0 THEN floor ELSE floor + 1, 100)

\* lines 965-970: calc_forward_return; current_idx counts from 0
calc_forward_return(data, current_idx, forward_periods) ==
    IF current_idx + forward_periods < Len(data.index)
    THEN Rat((data.Close[current_idx + forward_periods + 1] - data.Close[current_idx + 1]) * 100,
             data.Close[current_idx + 1])
    ELSE None

\* `round(r, 2) if r is not None else 'N/A'`
shown_return(r) == IF r = None THEN [text |-> "N/A"] ELSE round_2(r)

\* the frame of a sector of the dict
frame_of(sector_data_dict, name) ==
    sector_data_dict[CHOOSE k \in 1..Len(sector_data_dict) : sector_data_dict[k].name = name].data

\* lines 856-994: what date i adds to historical_results
historical_result(sector_data_dict, benchmark_data, mom_weights, i, forwards) ==
    LET rows == historical_period_results(sector_data_dict, i)
    IN  IF Len(rows) < 2 THEN <<>>
        ELSE LET top == top_2(historical_scores(rows, mom_weights), forwards)
                 rank_1_data == frame_of(sector_data_dict, top[1].Sector)
                 rank_2_data == frame_of(sector_data_dict, top[2].Sector)
                 current_idx == Len(rank_1_data.index) - i
             IN  << [Date          |-> benchmark_data.index[Len(benchmark_data.index) - i + 1],
                     Rank_1_Sector |-> top[1].Sector,
                     Rank_1_7Day   |-> shown_return(calc_forward_return(rank_1_data, current_idx, ForwardWeek)),
                     Rank_1_14Day  |-> shown_return(calc_forward_return(rank_1_data, current_idx, ForwardFortnight)),
                     Rank_2_Sector |-> top[2].Sector,
                     Rank_2_7Day   |-> shown_return(calc_forward_return(rank_2_data, current_idx, ForwardWeek)),
                     Rank_2_14Day  |-> shown_return(calc_forward_return(rank_2_data, current_idx, ForwardFortnight)),
                     ranked        |-> [k \in 1..Len(rows) |->
                                           [Sector       |-> rows[k].Sector,
                                            subset_index |-> rows[k].subset_index]]] >>

\* historical_results after the dates lookback, ..., i
RECURSIVE historical_results(_, _, _, _, _, _)
historical_results(sector_data_dict, benchmark_data, mom_weights, lookback, i, forwards) ==
    IF i > lookback THEN <<>>
    ELSE historical_results(sector_data_dict, benchmark_data, mom_weights, lookback, i + 1, forwards)
         \o historical_result(sector_data_dict, benchmark_data, mom_weights, i, forwards)

\* the whole call; `ranked` in a record is not a column of the returned
\* frame: it keeps, for the date, the bars the ranking was computed from
HistoricalPerformance ==
    /\ value = None
    /\ \E forwards \in BOOLEAN :
          LET lookback == lookback_periods(args.benchmark_data, args.interval)
              list == historical_results(args.sector_data_dict, args.benchmark_data,
                                         args.momentum_weights, lookback, 1, forwards)
          IN  value' = IF lookback < 10 THEN NoneReturned
                       ELSE IF list = <<>> THEN NoneReturned
                       ELSE DataFrame(list)
    /\ UNCHANGED <<other_vars, call_vars, args, trend_vars>>

\* the last timestamp of every input frame
HistoryEnd == MinHistoryBars + ForwardFortnight + 2

\* the frame of entity k with `bars` bars ending at HistoryEnd (a shorter
\* frame starts later); its close grows by k a bar from 100 * k
PriceFrame(k, bars) ==
    [index |-> [j \in 1..bars |-> HistoryEnd - bars + j],
     Close |-> [j \in 1..bars |-> 100 * k + k * (HistoryEnd - bars + j)]]

\* the indicator profiles of n sectors: all different, in the three
\* rotations of the profiles' order, or all the same (every score tied)
HistoryProfiles(n) ==
    LET order == <<Snapshot(25, -10, 15, 30, -5), Snapshot(45, 2, 5, 50, 0),
                   Snapshot(60, 15, 30, 80, 10)>>
    IN  { [k \in 1..n |-> order[((k + r) % 3) + 1]] : r \in 0..2 }
        \cup { [k \in 1..n |-> order[1]] }

\* the benchmark and the interval: the full history looked back over daily
\* or weekly, and a history too short to look back over
HistoryBenchmarks ==
    { [benchmark_data |-> PriceFrame(1, HistoryEnd), interval |-> "1d"],
      [benchmark_data |-> PriceFrame(1, HistoryEnd), interval |-> "1wk"],
      [benchmark_data |-> PriceFrame(1, 29), interval |-> "1d"] }

\* one to three sectors with the full history or with one bar less
InitHistory ==
    /\ NoCall
    /\ NoTrend
    /\ NoFetch
    /\ args \in UNION { { [sector_data_dict |->
                              << [name |-> Benchmark, data |-> b.benchmark_data] >> \o
                              [k \in 1..n |-> [name |-> SectorNames[k],
                                               data |-> f[k] @@ PriceFrame(k + 1, HistoryEnd - short[k])]],
                           benchmark_data |-> b.benchmark_data,
                           momentum_weights |-> w,
                           interval |-> b.interval] :
                            f \in HistoryProfiles(n), short \in [1..n -> {0, 1}],
                            b \in HistoryBenchmarks,
                            w \in {DEFAULT_MOMENTUM_WEIGHTS, MomentumNoRS} } : n \in 1..3 }
    /\ value = None

NextHistory == HistoricalPerformance

SpecHistory == InitHistory /\ [][NextHistory]_vars

-----------------------------------------------------------------------------
(* streamlit_app.py: one point of calculate_reversal_trend scored on its own *)

\* lines 703-717: the row of one entity in period_results; `subset_data`
\* stands for the truncated frame through the indicator values computed
\* from it (RSI in points, ADX_Z in tenths, CMF in hundredths)
reversal_row(sect_name, subset_data, thresholds) ==
    LET meets_rsi   == subset_data.RSI < Get(thresholds, "RSI", 40)
        meets_adx_z == subset_data.ADX_Z < Get(thresholds, "ADX_Z", -5)
    IN  [Sector    |-> sect_name,
         RSI       |-> subset_data.RSI,
         ADX_Z     |-> subset_data.ADX_Z,
         CMF       |-> subset_data.CMF,
         RS_Rating |-> subset_data.RS_Rating,
         Eligible  |-> meets_rsi /\ meets_adx_z]

\* lines 656-717: the rows of every entity but the benchmark
collect_reversal_period(all_sector_data, thresholds) ==
    LET ranked == SelectSeq(all_sector_data, LAMBDA item : item.name # Benchmark)
    IN  [k \in 1..Len(ranked) |-> reversal_row(ranked[k].name, ranked[k].data, thresholds)]

\* lines 726-762: period_df with its Reversal_Score column: the eligible
\* rows are ranked among themselves (lowest RS_Rating, RSI, ADX_Z and
\* highest CMF rank 1), their weighted rank sum is scaled to 10..1, a single
\* eligible row gets 10, every other row 0.  The weighted average rank is
\* held times total_weight; a total_weight of 0 makes it undefined and the
\* column 5.0.
score_reversal_period(period_df, rev_weights) ==
    LET eligible     == SelectSeq(period_df, LAMBDA row : row.Eligible)
        rs           == rank(Column(eligible, "RS_Rating"), TRUE)
        cmf          == rank(Column(eligible, "CMF"), FALSE)
        rsi          == rank(Column(eligible, "RSI"), TRUE)
        adx          == rank(Column(eligible, "ADX_Z"), TRUE)
        total_weight == SumOver(rev_weights, DOMAIN rev_weights)
        war          == [i \in 1..Len(eligible) |->
                            rs[i] * Get(rev_weights, "RS_Rating", 40)
                            + cmf[i] * Get(rev_weights, "CMF", 40)
                            + rsi[i] * Get(rev_weights, "RSI", 10)
                            + adx[i] * Get(rev_weights, "ADX_Z", 10)]
        all          == { war[i] : i \in 1..Len(war) }
        min_rank     == CHOOSE m \in all : \A w \in all : m <= w
        max_rank     == CHOOSE m \in all : \A w \in all : m >= w
        score(i)     == IF Len(eligible) = 1 THEN Rat(10, 1)
                        ELSE IF total_weight # 0 /\ max_rank > min_rank
                        THEN scale_score(war[i], min_rank, max_rank)
                        ELSE Rat(5, 1)
    IN  [k \in 1..Len(period_df) |->
            period_df[k] @@
            [Reversal_Score |->
                IF period_df[k].Eligible
                THEN score(CHOOSE i \in 1..Len(eligible) :
                              eligible[i].Sector = period_df[k].Sector)
                ELSE Rat(0, 1)]]

\* what a column of the trend table shows in place of a number
NotApplicable == [text |-> "N/A"]

\* lines 777-785: the replay's status of the selected sector's row
reversal_trend_status(row, thresholds) ==
    IF row.Eligible
    THEN IF /\ 4 * row.RSI < 3 * Get(thresholds, "RSI", 40)
            /\ row.ADX_Z < Get(thresholds, "ADX_Z", -5) - 5
            /\ row.CMF > 10
         THEN "BUY_DIV"
         ELSE "Watch"
    ELSE "No"

\* lines 768-803: the record of the selected sector, if it has a row
reversal_record(period_df, sector_name, thresholds) ==
    IF \E k \in 1..Len(period_df) : period_df[k].Sector = sector_name
    THEN LET k      == CHOOSE k \in 1..Len(period_df) : period_df[k].Sector = sector_name
             row    == period_df[k]
             status == reversal_trend_status(row, thresholds)
             scored == row.Reversal_Score.n > 0
             ranked == { j \in 1..Len(period_df) : period_df[j].Reversal_Score.n > 0 }
         IN  << [Sector         |-> sector_name,
                 Status         |-> status,
                 Reversal_Score |-> IF scored THEN format_value(row.Reversal_Score, 1)
                                    ELSE NotApplicable,
                 Rank           |->
                    IF status # "No" /\ scored
                    THEN [number |-> 1 + Cardinality({ j \in ranked :
                              period_df[j].Reversal_Score.n * row.Reversal_Score.d
                                > row.Reversal_Score.n * period_df[j].Reversal_Score.d })]
                    ELSE NotApplicable] >>
    ELSE <<>>

\* one point of the reversal replay for the selected sector, next to the
\* status analyze_sector puts in the main table for the same indicator
\* values and thresholds
ScoreReversalPoint ==
    /\ args # None
    /\ value = None
    /\ LET period_df == score_reversal_period(
                            collect_reversal_period(args.all_sector_data,
                                                    args.reversal_thresholds),
                            args.reversal_weights)
           selected  == CHOOSE item \in { args.all_sector_data[k] :
                                            k \in 1..Len(args.all_sector_data) } :
                            item.name = args.sector_name
       IN  value' = [kind      |-> "reversal_point",
                     period_df |-> period_df,
                     record    |-> reversal_record(period_df, args.sector_name,
                                                   args.reversal_thresholds),
                     main      |-> determine_reversal_status(
                                       selected.data.RSI, selected.data.ADX_Z,
                                       selected.data.CMF, args.reversal_thresholds)]
    /\ UNCHANGED <<other_vars, call_vars, args, trend_vars>>

\* Snapshots on either side of the replay's tiers and of the fixed tiers,
\* under the thresholds below
ReversalProfiles ==
    { Snapshot(25, -10, 15, 30, -5),
      Snapshot(35, -10, 15, 50, -5),
      Snapshot(35,  10, 15, 50,  0),
      Snapshot(25,  10, 15, 40,  0),
      Snapshot(35,   2, -5, 50,  0),
      Snapshot(35,   2,  5, 60,  0),
      Snapshot(45,   2,  5, 50,  0) }

\* the sidebar's thresholds at their defaults, and stricter ones
ReversalThresholdChoices == { SidebarThresholds, [RSI |-> 30, ADX_Z |-> -5, CMF |-> 0] }

\* a sector of the dict selected, at a point where every sector has enough
\* bars
InitReversalPoint ==
    /\ NoCall
    /\ NoTrend
    /\ NoFetch
    /\ value = None
    /\ \E all_sector_data \in Batches(ReversalProfiles),
          rev_weights \in {DEFAULT_REVERSAL_WEIGHTS, ReversalNoCMF},
          thresholds \in ReversalThresholdChoices :
          /\ Len(all_sector_data) > 1
          /\ \E k \in 2..Len(all_sector_data) :
                args = [all_sector_data     |-> all_sector_data,
                        sector_name         |-> all_sector_data[k].name,
                        reversal_weights    |-> rev_weights,
                        reversal_thresholds |-> thresholds]

NextReversalPoint == ScoreReversalPoint

SpecReversalPoint == InitReversalPoint /\ [][NextReversalPoint]_vars

-----------------------------------------------------------------------------
(* data_fetcher.py: fetch_sector_data and its in-memory cache              *)

\* A string is held as the sequence of its pieces, "_" being a piece of its
\* own, so that joining strings is concatenation.  A fetched frame is held
\* as a record of its number of bars and of where it came from.

\* config.MIN_DATA_POINTS
MIN_DATA_POINTS == 50

\* data_fetcher._cache_ttl, in seconds
CacheTTL == 300

\* _get_cache_key, lines 37-41: the md5 digest of
\* f"{symbol}_{period}_{date_str}_{interval}"; the digest is held as the
\* string it is taken of (two different strings have different digests)
GetCacheKey(symbol, period, end_date, interval) ==
    LET date_str == IF end_date # None THEN end_date.day ELSE <<"latest">>
    IN  symbol \o <<"_">> \o period \o <<"_">> \o date_str \o <<"_">> \o interval

\* _is_cache_valid, lines 44-49, with the entry still valid at the age of
\* the TTL itself
IsCacheValidAtTTL(cache, cache_key, clock) ==
    IF cache_key \notin DOMAIN cache THEN FALSE
    ELSE (clock - cache[cache_key].timestamp) <= CacheTTL

\* _is_cache_valid, lines 44-49
IsCacheValid(cache, cache_key, clock) ==
    IF cache_key \notin DOMAIN cache THEN FALSE
    ELSE (clock - cache[cache_key].timestamp) < CacheTTL

\* what a source hands back or does
Raises == [kind |-> "raises"]

Bars(n) == [kind |-> "frame", bars |-> n]

\* the frame a source returned for a request, as the caller holds it;
\* `call` is the number of the fetch call that obtained it
Frame(reply, source, symbol, period, end_date, interval, call) ==
    [bars |-> reply.bars, source |-> source, symbol |-> symbol, period |-> period,
     end_date |-> end_date, interval |-> interval, call |-> call]

\* _data_cache[cache_key] = {'data': data, 'timestamp': now}
Store(cache, cache_key, data, clock) ==
    (cache_key :> [data |-> data, timestamp |-> clock]) @@ cache

\* a source was asked and replied
Contact(source, reply) == [source |-> source, reply |-> reply]

\* what one call of fetch_sector_data does and returns
Outcome(returned, cache, contacted, cache_key, hit) ==
    [returned |-> returned, cache |-> cache, contacted |-> contacted,
     cache_key |-> cache_key, hit |-> hit]

\* fetch_sector_data that stores what it is about to return, None included
fetch_sector_data_caching_failures(cache, clock, available, req, local_reply, remote_reply, call) ==
    LET cache_key == GetCacheKey(req.symbol, req.period, req.end_date, req.interval)
        period    == IF req.end_date = None /\ req.interval = <<"1h">> THEN <<"60d">>
                     ELSE req.period
        try_local == available /\ req.interval = <<"1d">> /\ req.use_cache
        local_hit == /\ try_local
                     /\ local_reply # None /\ local_reply # Raises
                     /\ local_reply.bars >= req.min_data_points
        before    == IF try_local THEN <<Contact("local_cache", local_reply)>> ELSE <<>>
    IN  IF req.use_cache /\ IsCacheValid(cache, cache_key, clock)
        THEN Outcome(cache[cache_key].data, cache, <<>>, cache_key, TRUE)
        ELSE IF local_hit
        THEN LET data == Frame(local_reply, "local_cache", req.symbol, period,
                               req.end_date, <<"1d">>, call)
             IN  Outcome(data, Store(cache, cache_key, data, clock), before, cache_key, FALSE)
        ELSE IF remote_reply = Raises \/ remote_reply = None \/ remote_reply.bars = 0
        THEN Outcome(None, Store(cache, cache_key, None, clock),
                     before \o <<Contact("yfinance", remote_reply)>>, cache_key, FALSE)
        ELSE LET data == Frame(remote_reply, "yfinance", req.symbol, period,
                               req.end_date, req.interval, call)
             IN  Outcome(data, Store(cache, cache_key, data, clock),
                         before \o <<Contact("yfinance", remote_reply)>>, cache_key, FALSE)

\* fetch_sector_data, lines 58-143.  local_reply is what get_cached_data
\* does when it is called, remote_reply what ticker.history does: a frame,
\* None, or raising (for history: anything raising inside the try block).
\* The local store is contacted for daily data when the module is there and
\* use_cache is set; a failing cache_data (line 132) is caught and changes
\* nothing here.
fetch_sector_data(cache, clock, available, req, local_reply, remote_reply, call) ==
    LET cache_key == GetCacheKey(req.symbol, req.period, req.end_date, req.interval)
        period    == IF req.end_date = None /\ req.interval = <<"1h">> THEN <<"60d">>
                     ELSE req.period
        try_local == available /\ req.interval = <<"1d">> /\ req.use_cache
        local_hit == /\ try_local
                     /\ local_reply # None /\ local_reply # Raises
                     /\ local_reply.bars >= req.min_data_points
        before    == IF try_local THEN <<Contact("local_cache", local_reply)>> ELSE <<>>
    IN  IF req.use_cache /\ IsCacheValid(cache, cache_key, clock)
        THEN Outcome(cache[cache_key].data, cache, <<>>, cache_key, TRUE)
        ELSE IF local_hit
        THEN LET data == Frame(local_reply, "local_cache", req.symbol, period,
                               req.end_date, <<"1d">>, call)
             IN  Outcome(data, Store(cache, cache_key, data, clock), before, cache_key, FALSE)
        ELSE IF remote_reply = Raises \/ remote_reply = None \/ remote_reply.bars = 0
        THEN Outcome(None, cache, before \o <<Contact("yfinance", remote_reply)>>, cache_key, FALSE)
        ELSE LET data == Frame(remote_reply, "yfinance", req.symbol, period,
                               req.end_date, req.interval, call)
             IN  Outcome(data, Store(cache, cache_key, data, clock),
                         before \o <<Contact("yfinance", remote_reply)>>, cache_key, FALSE)

\* fetch_sector_data_with_alternate, lines 146-172, naming the primary
\* symbol whichever fetch the data came from
fetch_sector_data_with_alternate_naming_primary(cache, clock, available, req, alternate_symbol, replies, call) ==
    LET first == fetch_sector_data(cache, clock, available, req,
                                   replies[1].local, replies[1].remote, call)
    IN  IF first.returned # None
        THEN [returned |-> <<first.returned, req.symbol>>, cache |-> first.cache,
              attempts |-> <<first>>]
        ELSE IF alternate_symbol # None /\ alternate_symbol.str # <<>>
                   /\ alternate_symbol.str # <<"N/A">>
        THEN LET second == fetch_sector_data(first.cache, clock, available,
                                             [req EXCEPT !.symbol = alternate_symbol.str],
                                             replies[2].local, replies[2].remote, call)
             IN  IF second.returned # None
                 THEN [returned |-> <<second.returned, req.symbol>>,
                       cache |-> second.cache, attempts |-> <<first, second>>]
                 ELSE [returned |-> <<None, None>>, cache |-> second.cache,
                       attempts |-> <<first, second>>]
        ELSE [returned |-> <<None, None>>, cache |-> first.cache, attempts |-> <<first>>]

\* fetch_sector_data_with_alternate, lines 146-172.  alternate_symbol is
\* None or a string, held as [str |-> its pieces]; replies[1] and
\* replies[2] are what the sources do on the first and the second fetch.
fetch_sector_data_with_alternate(cache, clock, available, req, alternate_symbol, replies, call) ==
    LET first == fetch_sector_data(cache, clock, available, req,
                                   replies[1].local, replies[1].remote, call)
    IN  IF first.returned # None
        THEN [returned |-> <<first.returned, req.symbol>>, cache |-> first.cache,
              attempts |-> <<first>>]
        ELSE IF alternate_symbol # None /\ alternate_symbol.str # <<>>
                   /\ alternate_symbol.str # <<"N/A">>
        THEN LET second == fetch_sector_data(first.cache, clock, available,
                                             [req EXCEPT !.symbol = alternate_symbol.str],
                                             replies[2].local, replies[2].remote, call)
             IN  IF second.returned # None
                 THEN [returned |-> <<second.returned, alternate_symbol.str>>,
                       cache |-> second.cache, attempts |-> <<first, second>>]
                 ELSE [returned |-> <<None, None>>, cache |-> second.cache,
                       attempts |-> <<first, second>>]
        ELSE [returned |-> <<None, None>>, cache |-> first.cache, attempts |-> <<first>>]

\* the fetch calls made in one run
MaxFetches == 3

\* the times the clock is read at a later second in one run
MaxTicks == 2

\* history: one fetch_sector_data made by the last call, with the state it
\* found
Attempt(req, out, cache, clock, failed) ==
    [req           |-> req,
     cache_key     |-> out.cache_key,
     hit           |-> out.hit,
     contacted     |-> out.contacted,
     returned      |-> out.returned,
     at            |-> clock,
     entry_before  |-> IF out.cache_key \in DOMAIN cache THEN cache[out.cache_key] ELSE None,
     failed_before |-> out.cache_key \in failed]

\* the keys whose latest fetch returned None, after one more attempt
AfterAttempt(failed, out) ==
    IF out.returned = None THEN failed \cup {out.cache_key}
    ELSE failed \ {out.cache_key}

NoCalls == [seq |-> 0, fn |-> "none", attempts |-> <<>>, returned |-> None]

\* a call fetch_sector_data(symbol, period, min_data_points, end_date,
\* interval, use_cache)
FetchSectorData ==
    /\ environment # None
    /\ last_fetch.seq < MaxFetches
    /\ \E req \in environment.requests,
          local_reply \in environment.local_replies,
          remote_reply \in environment.remote_replies :
          LET out == fetch_sector_data(data_cache, now, LOCAL_CACHE_AVAILABLE, req,
                                       local_reply, remote_reply, last_fetch.seq + 1)
          IN  /\ data_cache' = out.cache
              /\ last_fetch' = [seq      |-> last_fetch.seq + 1,
                                fn       |-> "fetch_sector_data",
                                attempts |-> <<Attempt(req, out, data_cache, now, last_failed)>>,
                                returned |-> out.returned]
              /\ last_failed' = AfterAttempt(last_failed, out)
    /\ UNCHANGED <<now, LOCAL_CACHE_AVAILABLE, environment, last_clear>>
    /\ UNCHANGED <<parallel_vars, call_vars, args, value, trend_vars>>

\* a call fetch_sector_data_with_alternate(symbol, alternate_symbol, ...)
FetchSectorDataWithAlternate ==
    /\ environment # None
    /\ last_fetch.seq < MaxFetches
    /\ \E req \in { r \in environment.requests : r.use_cache },
          alternate_symbol \in environment.alternates,
          l1 \in environment.local_replies, r1 \in environment.remote_replies,
          l2 \in environment.local_replies, r2 \in environment.remote_replies :
          LET replies == << [local |-> l1, remote |-> r1], [local |-> l2, remote |-> r2] >>
              out == fetch_sector_data_with_alternate(data_cache, now, LOCAL_CACHE_AVAILABLE,
                                                      req, alternate_symbol, replies,
                                                      last_fetch.seq + 1)
              first == out.attempts[1]
              failed_1 == AfterAttempt(last_failed, first)
          IN  /\ data_cache' = out.cache
              /\ last_fetch' =
                    [seq      |-> last_fetch.seq + 1,
                     fn       |-> "fetch_sector_data_with_alternate",
                     symbol   |-> req.symbol,
                     alternate_symbol |-> alternate_symbol,
                     attempts |->
                        IF Len(out.attempts) = 1
                        THEN <<Attempt(req, first, data_cache, now, last_failed)>>
                        ELSE <<Attempt(req, first, data_cache, now, last_failed),
                               Attempt([req EXCEPT !.symbol = alternate_symbol.str],
                                       out.attempts[2], first.cache, now, failed_1)>>,
                     returned |-> out.returned]
              /\ last_failed' = IF Len(out.attempts) = 1 THEN failed_1
                                ELSE AfterAttempt(failed_1, out.attempts[2])
    /\ UNCHANGED <<now, LOCAL_CACHE_AVAILABLE, environment, last_clear>>
    /\ UNCHANGED <<parallel_vars, call_vars, args, value, trend_vars>>

\* time passes between two calls: a second, or a second less than the TTL
Tick ==
    /\ environment # None
    /\ (now \div (CacheTTL - 1)) + (now % (CacheTTL - 1)) < MaxTicks
    /\ \E seconds \in {1, CacheTTL - 1} : now' = now + seconds
    /\ UNCHANGED <<data_cache, LOCAL_CACHE_AVAILABLE, environment, last_fetch,
                   last_failed, last_clear>>
    /\ UNCHANGED <<parallel_vars, call_vars, args, value, trend_vars>>

\* clear_data_cache, lines 52-55
ClearDataCache ==
    /\ environment # None
    /\ data_cache' = <<>>
    /\ last_clear' = last_fetch.seq
    /\ UNCHANGED <<now, LOCAL_CACHE_AVAILABLE, environment, last_fetch, last_failed>>
    /\ UNCHANGED <<parallel_vars, call_vars, args, value, trend_vars>>

\* fetch_sector_data(symbol, period='1y', min_data_points=MIN_DATA_POINTS,
\* end_date=None, interval='1d', use_cache=True)
Request(symbol, period, end_date, interval, use_cache) ==
    [symbol |-> symbol, period |-> period, min_data_points |-> MIN_DATA_POINTS,
     end_date |-> end_date, interval |-> interval, use_cache |-> use_cache]

\* what the sources may do: no data, an exception, an empty frame, a frame
\* a bar short of MIN_DATA_POINTS, a frame of MIN_DATA_POINTS bars
SourceReplies == {None, Raises, Bars(0), Bars(MIN_DATA_POINTS - 1), Bars(MIN_DATA_POINTS)}

\* the benchmark's symbol fetched with and without the cache
OneSymbol ==
    { Request(<<"^NSEI">>, <<"1y">>, None, <<"1d">>, use_cache) : use_cache \in BOOLEAN }

\* the fetcher after import, before any call, with the requests and the
\* source behaviour of `env`
FetcherLoaded(env) ==
    /\ NoCall
    /\ NoTrend
    /\ args = None
    /\ value = None
    /\ data_cache = <<>>
    /\ now = 0
    /\ environment = env
    /\ last_fetch = NoCalls
    /\ last_failed = {}
    /\ last_clear = 0
    /\ futures = <<>>
    /\ fetched_data = <<>>
    /\ failed_sectors = <<>>
    /\ completed = 0
    /\ progress_calls = <<>>
    /\ parallel_pc = "idle"

\* one key, any source behaviour, the local store there or not
InitFetch ==
    /\ LOCAL_CACHE_AVAILABLE \in BOOLEAN
    /\ FetcherLoaded([requests       |-> OneSymbol,
                      local_replies  |-> SourceReplies \ {None, Bars(0)},
                      remote_replies |-> SourceReplies,
                      alternates     |-> {None}])

NextFetch == FetchSectorData \/ Tick \/ ClearDataCache

SpecFetch == InitFetch /\ [][NextFetch]_vars

\* an end date: the day its '%Y-%m-%d' form shows and the hour of that day
EndDate(day, hour) == [day |-> <<day>>, hour |-> hour]

\* requests that differ from the first in one argument each: the symbol (one
\* that ends like the period), the period, the end date (two hours of one
\* day, and another day), the interval
KeyRequests ==
    { Request(<<"^NSEI">>, <<"1y">>, None, <<"1d">>, TRUE),
      Request(<<"^NSEI", "_", "1y">>, <<"1y">>, None, <<"1d">>, TRUE),
      Request(<<"^NSEI">>, <<"2y">>, None, <<"1d">>, TRUE),
      Request(<<"^NSEI">>, <<"1y">>, EndDate("2024-01-05", 0), <<"1d">>, TRUE),
      Request(<<"^NSEI">>, <<"1y">>, EndDate("2024-01-05", 15), <<"1d">>, TRUE),
      Request(<<"^NSEI">>, <<"1y">>, EndDate("2024-01-08", 0), <<"1d">>, TRUE),
      Request(<<"^NSEI">>, <<"1y">>, None, <<"1wk">>, TRUE) }

\* several keys, the remote source always answering, no local store
InitKeys ==
    /\ LOCAL_CACHE_AVAILABLE = FALSE
    /\ FetcherLoaded([requests       |-> KeyRequests,
                      local_replies  |-> {Raises},
                      remote_replies |-> {Bars(MIN_DATA_POINTS)},
                      alternates     |-> {None}])

NextKeys == FetchSectorData \/ Tick

SpecKeys == InitKeys /\ [][NextKeys]_vars

\* the alternates a sector may be configured with: none, an empty string,
\* 'N/A', a symbol
Alternates == {None, [str |-> <<>>], [str |-> <<"N/A">>], [str |-> <<"NIFTYBEES.NS">>]}

\* one primary symbol with any alternate, the remote source answering or not
InitAlternate ==
    /\ LOCAL_CACHE_AVAILABLE = FALSE
    /\ FetcherLoaded([requests       |-> { r \in OneSymbol : r.use_cache },
                      local_replies  |-> {Raises},
                      remote_replies |-> {None, Raises, Bars(MIN_DATA_POINTS)},
                      alternates     |-> Alternates])

NextAlternate == FetchSectorDataWithAlternate \/ Tick

SpecAlternate == InitAlternate /\ [][NextAlternate]_vars

-----------------------------------------------------------------------------
(* data_fetcher.py: fetch_all_sectors_parallel                             *)

\* The main thread submits one task per sector and then handles the tasks
\* in the order they finish; the worker threads run the tasks, at most
\* max_workers at a time.  args holds the call's arguments: the sector
\* names, max_workers, and whether a progress_callback is given (one that
\* returns normally).

\* what fetch_single does in a worker: it returns (sector_name, data,
\* used_symbol) with data None or a frame, or an exception escapes it
WorkerResults == {None, Raises, Bars(0), Bars(MIN_DATA_POINTS)}

Pending == [state |-> "pending"]

Running == [state |-> "running"]

Ended(result) == [state |-> "done", result |-> result]

Handled(result) == [state |-> "handled", result |-> result]

\* progress_callback(sector_name, success, current, total)
ProgressCall(sector_name, success, current, total) ==
    [sector_name |-> sector_name, success |-> success, current |-> current, total |-> total]

\* lines 212-234: the locals are set up and every task is submitted
SubmitAll ==
    /\ args # None
    /\ parallel_pc = "idle"
    /\ parallel_pc' = "as_completed"
    /\ futures' = [name \in args.sectors_dict |-> Pending]
    /\ fetched_data' = <<>>
    /\ failed_sectors' = <<>>
    /\ completed' = 0
    /\ progress_calls' = <<>>
    /\ UNCHANGED <<fetch_vars, call_vars, args, value, trend_vars>>

\* a worker thread takes a submitted task
WorkerStart(name) ==
    /\ parallel_pc = "as_completed"
    /\ futures[name] = Pending
    /\ Cardinality({ n \in DOMAIN futures : futures[n] = Running }) < args.max_workers
    /\ futures' = [futures EXCEPT ![name] = Running]
    /\ UNCHANGED <<fetched_data, failed_sectors, completed, progress_calls, parallel_pc>>
    /\ UNCHANGED <<fetch_vars, call_vars, args, value, trend_vars>>

\* lines 217-227: fetch_single ends in its worker thread
WorkerFinish(name) ==
    /\ parallel_pc = "as_completed"
    /\ futures[name] = Running
    /\ \E result \in WorkerResults : futures' = [futures EXCEPT ![name] = Ended(result)]
    /\ UNCHANGED <<fetched_data, failed_sectors, completed, progress_calls, parallel_pc>>
    /\ UNCHANGED <<fetch_vars, call_vars, args, value, trend_vars>>

\* the calls made of the callback so far and one more, if one is given
Progress(sector_name, success, current) ==
    IF args.progress_callback
    THEN Append(progress_calls,
                ProgressCall(sector_name, success, current, Cardinality(args.sectors_dict)))
    ELSE progress_calls

\* one turn of the as_completed loop with a worker's exception not filed
HandleLosingExceptions(name) ==
    /\ parallel_pc = "as_completed"
    /\ futures[name].state = "done"
    /\ LET result == futures[name].result
       IN  /\ futures' = [futures EXCEPT ![name] = Handled(result)]
           /\ completed' = completed + 1
           /\ IF result = Raises
              THEN /\ failed_sectors' = failed_sectors
                   /\ fetched_data' = fetched_data
                   /\ progress_calls' = Progress(name, FALSE, completed + 1)
              ELSE IF result # None /\ result.bars > 0
              THEN /\ fetched_data' = (name :> result) @@ fetched_data
                   /\ failed_sectors' = failed_sectors
                   /\ progress_calls' = Progress(name, TRUE, completed + 1)
              ELSE /\ failed_sectors' = Append(failed_sectors, name)
                   /\ fetched_data' = fetched_data
                   /\ progress_calls' = Progress(name, FALSE, completed + 1)
    /\ UNCHANGED parallel_pc
    /\ UNCHANGED <<fetch_vars, call_vars, args, value, trend_vars>>

\* lines 237-253: one turn of the as_completed loop, on a task that ended
\* and was not handed out before
Handle(name) ==
    /\ parallel_pc = "as_completed"
    /\ futures[name].state = "done"
    /\ LET result == futures[name].result
       IN  /\ futures' = [futures EXCEPT ![name] = Handled(result)]
           /\ completed' = completed + 1
           /\ IF result = Raises
              THEN /\ failed_sectors' = Append(failed_sectors, name)
                   /\ fetched_data' = fetched_data
                   /\ progress_calls' = Progress(name, FALSE, completed + 1)
              ELSE IF result # None /\ result.bars > 0
              THEN /\ fetched_data' = (name :> result) @@ fetched_data
                   /\ failed_sectors' = failed_sectors
                   /\ progress_calls' = Progress(name, TRUE, completed + 1)
              ELSE /\ failed_sectors' = Append(failed_sectors, name)
                   /\ fetched_data' = fetched_data
                   /\ progress_calls' = Progress(name, FALSE, completed + 1)
    /\ UNCHANGED parallel_pc
    /\ UNCHANGED <<fetch_vars, call_vars, args, value, trend_vars>>

\* line 255, once as_completed has handed out every task
ParallelReturn ==
    /\ parallel_pc = "as_completed"
    /\ \A name \in DOMAIN futures : futures[name].state = "handled"
    /\ parallel_pc' = "returned"
    /\ value' = [sector_data |-> fetched_data, failed_sectors |-> failed_sectors]
    /\ UNCHANGED <<futures, fetched_data, failed_sectors, completed, progress_calls>>
    /\ UNCHANGED <<fetch_vars, call_vars, args, trend_vars>>

\* the calls fetch_all_sectors_parallel(sectors_dict, ...) on at most
\* MaxEntities sectors, with one worker or the default eight, with and
\* without a progress_callback
InitParallel ==
    /\ NoCall
    /\ NoTrend
    /\ NoFetch
    /\ value = None
    /\ \E n \in 0..MaxEntities, max_workers \in {1, 8}, progress_callback \in BOOLEAN :
          args = [sectors_dict      |-> { SectorNames[k] : k \in 1..n },
                  max_workers       |-> max_workers,
                  progress_callback |-> progress_callback]

NextParallel ==
    \/ SubmitAll
    \/ \E name \in DOMAIN futures : WorkerStart(name)
    \/ \E name \in DOMAIN futures : WorkerFinish(name)
    \/ \E name \in DOMAIN futures : Handle(name)
    \/ ParallelReturn

SpecParallel == InitParallel /\ [][NextParallel]_vars

-----------------------------------------------------------------------------
(* Properties.  The definitions below restate what the specification says  *)
(* in its own terms; they use none of the scorer's operators unless the    *)
(* property is a relation between two of its results.                      *)

\* a <= b for two rationals
RatLeq(a, b) == a.n * b.d <= b.n * a.d

\* a call has returned a table
Done == pc = "done" /\ df.kind = "DataFrame"

\* the eligible subset: the rows whose Reversal_Status is not 'No'
EligibleRows(rows) == {i \in 1..Len(rows) : rows[i].Reversal_Status # "No"}

\* competition rank of value v among the rows `pool` of a table:
\* 1 + the number of rows with a strictly lower (higher) value
RankAmongLower(rows, pool, col, v) ==
    1 + Cardinality({j \in pool : rows[j][col] < v})

RankAmongHigher(rows, pool, col, v) ==
    1 + Cardinality({j \in pool : rows[j][col] > v})

\* the weights a call scores momentum with, the defaults written out
MomentumWeightsInForce ==
    IF momentum_weights = None
    THEN [ADX_Z |-> 20, RS_Rating |-> 40, RSI |-> 30, DI_Spread |-> 10]
    ELSE momentum_weights

\* the weights a call scores reversal with, the defaults written out
ReversalWeightsInForce ==
    IF reversal_weights = None
    THEN [RS_Rating |-> 40, CMF |-> 40, RSI |-> 10, ADX_Z |-> 10]
    ELSE reversal_weights

\* sum of (rank x weight / total weight x 100) over the four reversal indicators
WeightedRankScore(r_rs, r_cmf, r_rsi, r_adx, w) ==
    Rat(100 * (r_rs * w.RS_Rating + r_cmf * w.CMF + r_rsi * w.RSI + r_adx * w.ADX_Z),
        w.RS_Rating + w.CMF + w.RSI + w.ADX_Z)

\* the rows of `results` that are eligible, and the place of row i among them
EligibleOnly(rows) == SelectSeq(rows, LAMBDA r : r.Reversal_Status # "No")

PlaceAmongEligible(rows, i) ==
    Cardinality({j \in EligibleRows(rows) : j <= i})

C3_CompetitionRanking ==
    Done =>
        LET rows == df.rows
            all  == 1..Len(rows)
            E    == EligibleRows(rows)
            er   == eligible_reversals(rows, reversal_weights)
        IN  /\ \A i \in all :
                 /\ rows[i].ADX_Z_Rank =
                        RankAmongLower(rows, all, "ADX_Z", rows[i].ADX_Z)
                 /\ rows[i].RS_Rating_Rank =
                        RankAmongLower(rows, all, "RS_Rating", rows[i].RS_Rating)
                 /\ rows[i].RSI_Rank =
                        RankAmongLower(rows, all, "RSI", rows[i].RSI)
                 /\ rows[i].DI_Spread_Rank =
                        RankAmongLower(rows, all, "DI_Spread", rows[i].DI_Spread)
            /\ {er[k].index : k \in 1..Len(er)} = E
            /\ \A k \in 1..Len(er) :
                 /\ er[k].RS_Rating_Reversal_Rank =
                        RankAmongLower(rows, E, "RS_Rating", er[k].RS_Rating)
                 /\ er[k].RSI_Reversal_Rank =
                        RankAmongLower(rows, E, "RSI", er[k].RSI)
                 /\ er[k].ADX_Z_Reversal_Rank =
                        RankAmongLower(rows, E, "ADX_Z", er[k].ADX_Z)
                 /\ er[k].CMF_Reversal_Rank =
                        RankAmongHigher(rows, E, "CMF", er[k].CMF)

\* C3 witness: five rows, three of them tied for the second-lowest RSI at
\* rank 2, the next value at rank 5; and among the eligible rows two tied
\* for the highest CMF at reversal rank 1 with the next at rank 3
C3_Witness ==
    /\ Done
    /\ Len(df.rows) = 5
    /\ Cardinality({i \in 1..5 : df.rows[i].RSI_Rank = 1}) = 1
    /\ Cardinality({i \in 1..5 : df.rows[i].RSI_Rank = 2}) = 3
    /\ Cardinality({i \in 1..5 : df.rows[i].RSI_Rank = 5}) = 1
    /\ LET er == eligible_reversals(df.rows, reversal_weights)
       IN  /\ Cardinality({k \in 1..Len(er) : er[k].CMF_Reversal_Rank = 1}) = 2
           /\ \E k \in 1..Len(er) : er[k].CMF_Reversal_Rank = 3

\* C4: in every finished call whose momentum weights give RS_Rating a
\* weight > 0, two rows with equal ADX_Z, RSI and DI_Spread and
\* RS_Rating_A > RS_Rating_B have Momentum_Score_A >= Momentum_Score_B.
C4_MomentumMonotonicInRS ==
    (Done /\ MomentumWeightsInForce.RS_Rating > 0) =>
        \A a, b \in 1..Len(df.rows) :
            ( /\ df.rows[a].ADX_Z = df.rows[b].ADX_Z
              /\ df.rows[a].RSI = df.rows[b].RSI
              /\ df.rows[a].DI_Spread = df.rows[b].DI_Spread
              /\ df.rows[a].RS_Rating > df.rows[b].RS_Rating )
            => RatLeq(df.rows[b].Momentum_Score, df.rows[a].Momentum_Score)

\* C4 witness: such a pair of rows, scored with a positive RS_Rating
\* weight, in a table with a third row
C4_Witness ==
    /\ Done
    /\ MomentumWeightsInForce.RS_Rating > 0
    /\ Len(df.rows) >= 3
    /\ \E a, b \in 1..Len(df.rows) :
         /\ df.rows[a].ADX_Z = df.rows[b].ADX_Z
         /\ df.rows[a].RSI = df.rows[b].RSI
         /\ df.rows[a].DI_Spread = df.rows[b].DI_Spread
         /\ df.rows[a].RS_Rating > df.rows[b].RS_Rating
         /\ df.rows[a].Momentum_Score # df.rows[b].Momentum_Score

\* the eligible rows a and b of a table agree on every reversal indicator
\* but `col`
DifferOnlyIn(a, b, col) ==
    \A c \in {"RS_Rating", "CMF", "RSI", "ADX_Z"} \ {col} : a[c] = b[c]

\* C5: within the eligible subset the more reversal-favourable value gets
\* the higher rank number on every indicator (a strictly lower RS_Rating,
\* RSI or ADX_Z, a strictly higher CMF), and of two eligible rows that
\* differ in one indicator only the more favourable one has a
\* Reversal_Score at least as large.
C5_FavourableRanksHigher ==
    Done =>
        LET er == eligible_reversals(df.rows, reversal_weights)
            score(k) == df.rows[er[k].index].Reversal_Score
        IN  \A a, b \in 1..Len(er) :
              /\ er[a].RS_Rating < er[b].RS_Rating
                   => /\ er[a].RS_Rating_Reversal_Rank > er[b].RS_Rating_Reversal_Rank
                      /\ DifferOnlyIn(er[a], er[b], "RS_Rating")
                           => RatLeq(score(b), score(a))
              /\ er[a].RSI < er[b].RSI
                   => /\ er[a].RSI_Reversal_Rank > er[b].RSI_Reversal_Rank
                      /\ DifferOnlyIn(er[a], er[b], "RSI")
                           => RatLeq(score(b), score(a))
              /\ er[a].ADX_Z < er[b].ADX_Z
                   => /\ er[a].ADX_Z_Reversal_Rank > er[b].ADX_Z_Reversal_Rank
                      /\ DifferOnlyIn(er[a], er[b], "ADX_Z")
                           => RatLeq(score(b), score(a))
              /\ er[a].CMF > er[b].CMF
                   => /\ er[a].CMF_Reversal_Rank > er[b].CMF_Reversal_Rank
                      /\ DifferOnlyIn(er[a], er[b], "CMF")
                           => RatLeq(score(b), score(a))

\* the dict with every weight multiplied by k
Scaled(weights, k) == [key \in DOMAIN weights |-> k * weights[key]]

C7_SameInputsSameTable ==
    ( /\ pc = "done"
      /\ first_call # Unset
      /\ momentum_weights = first_call.momentum_weights
      /\ reversal_weights = first_call.reversal_weights )
    => df = first_call.df

\* C7 witness: a call with the first call's weights has finished after a
\* call with other weights finished, and returned a table with an eligible row
C7_Witness ==
    /\ Done
    /\ first_call # Unset
    /\ first_call.other_since
    /\ momentum_weights = first_call.momentum_weights
    /\ reversal_weights = first_call.reversal_weights
    /\ \E i \in 1..Len(df.rows) : df.rows[i].Reversal_Status # "No"

\* the fixed tiers, in the units of the model: RSI 40 / 50, ADX_Z -0.5 /
\* 0.5 (tenths), CMF 0.10 / 0 (hundredths)
IsBuyDiv(rsi, adx_z, cmf) == rsi < 40 /\ adx_z < -5 /\ cmf > 10

IsWatch(rsi, adx_z, cmf) == rsi < 50 /\ adx_z < 5 /\ cmf > 0

\* the user filter of a thresholds dict that carries both keys
PassesFilter(rsi, adx_z, thresholds) ==
    rsi < thresholds.RSI /\ adx_z < thresholds.ADX_Z

\* C8: without user thresholds, every analysed entity's Reversal_Status is
\* 'BUY_DIV' iff rsi < 40, adx_z < -0.5 and cmf > 0.1; else 'Watch' iff
\* rsi < 50, adx_z < 0.5 and cmf > 0; else 'No' -- all comparisons strict,
\* exactly one of the three values.
C8_FixedTiers ==
    (~Truthy(reversal_thresholds)) =>
        \A i \in 1..Len(results) :
            LET r   == results[i]
                buy == IsBuyDiv(r.RSI, r.ADX_Z, r.CMF)
                wat == IsWatch(r.RSI, r.ADX_Z, r.CMF)
            IN  /\ r.Reversal_Status \in {"BUY_DIV", "Watch", "No"}
                /\ r.Reversal_Status = "BUY_DIV" <=> buy
                /\ r.Reversal_Status = "Watch" <=> (~buy /\ wat)
                /\ r.Reversal_Status = "No" <=> (~buy /\ ~wat)

\* C8 witness: an entity analysed without thresholds whose RSI is exactly
\* 40 and whose other values pass the BUY_DIV tier: it is 'Watch'
C8_Witness ==
    /\ ~Truthy(reversal_thresholds)
    /\ \E i \in 1..Len(results) :
         /\ results[i].RSI = 40
         /\ results[i].ADX_Z < -5
         /\ results[i].CMF > 10
         /\ results[i].Reversal_Status = "Watch"

\* C9: with user thresholds supplied, an analysed entity that fails
\* rsi < threshold.RSI and adx_z < threshold.ADX_Z is 'No'; one that
\* passes has the status of the fixed tiers; so in every case the status
\* is 'No' or the status of the fixed tiers.
C9_ThresholdsOnlyDemote ==
    Truthy(reversal_thresholds) =>
        \A i \in 1..Len(results) :
            LET r     == results[i]
                fixed == IF IsBuyDiv(r.RSI, r.ADX_Z, r.CMF) THEN "BUY_DIV"
                         ELSE IF IsWatch(r.RSI, r.ADX_Z, r.CMF) THEN "Watch"
                         ELSE "No"
            IN  /\ r.Reversal_Status \in {"No", fixed}
                /\ {"RSI", "ADX_Z"} \subseteq DOMAIN reversal_thresholds =>
                     r.Reversal_Status =
                        IF PassesFilter(r.RSI, r.ADX_Z, reversal_thresholds)
                        THEN fixed ELSE "No"

\* C9 witness: an entity the fixed tiers call 'BUY_DIV' that the supplied
\* thresholds turn into 'No'
C9_Witness ==
    /\ Truthy(reversal_thresholds)
    /\ {"RSI", "ADX_Z"} \subseteq DOMAIN reversal_thresholds
    /\ \E i \in 1..Len(results) :
         /\ IsBuyDiv(results[i].RSI, results[i].ADX_Z, results[i].CMF)
         /\ ~PassesFilter(results[i].RSI, results[i].ADX_Z, reversal_thresholds)
         /\ results[i].Reversal_Status = "No"

ReturnStamps(frame) ==
    IF frame = None THEN {}
    ELSE { frame.Close[k].t : k \in { j \in 2..Len(frame.Close) :
               frame.Close[j].value # 0 \/ frame.Close[j - 1].value # 0 } }

\* the common return timestamps of the entity and the benchmark
AlignedStamps == ReturnStamps(args.data) \cap ReturnStamps(args.benchmark_data)

\* 1 + cumulative return of a frame over the aligned timestamps: the product
\* of close / previous close over the bars at those timestamps, from bar k on
RECURSIVE Growth(_, _, _)
Growth(close, stamps, k) ==
    IF k > Len(close) THEN Rat(1, 1)
    ELSE XMul(IF close[k].t \in stamps
              THEN XDiv(close[k].value, close[k - 1].value) ELSE Rat(1, 1),
              Growth(close, stamps, k + 1))

EntityCumret == XAdd(Growth(args.data.Close, AlignedStamps, 2), Rat(-1, 1))

BenchmarkCumret ==
    IF args.benchmark_data = None THEN Rat(0, 1)
    ELSE XAdd(Growth(args.benchmark_data.Close, AlignedStamps, 2), Rat(-1, 1))

RelativePerf == XAdd(EntityCumret, XNeg(BenchmarkCumret))

\* clamp(x, 0, 10)
Clamp(x) ==
    IF XLt(x, Rat(0, 1)) THEN Rat(0, 1)
    ELSE IF XLt(Rat(10, 1), x) THEN Rat(10, 1) ELSE x

ClampedRating == Clamp(XAdd(Rat(5, 1), XMul(Rat(25, 1), RelativePerf)))

\* 0 <= x <= 10, x a finite number
WithinZeroTen(x) == x.d > 0 /\ 0 <= x.n /\ x.n <= 10 * x.d

\* C11 as stated: whatever the aligned return series, as long as the
\* relative performance is a defined number, the rating is
\* clamp(5 + 25 * (entity_cumret - benchmark_cumret), 0, 10) and lies in
\* [0, 10].
C11_RatingIsClampForAllSeries ==
    (value # None /\ ~IsNaN(RelativePerf)) =>
        /\ value.RS_Rating = ClampedRating
        /\ WithinZeroTen(value.RS_Rating)

\* C11 amended: every rating lies in [0, 10], and whenever the aligned
\* return series have at least two points and the relative performance is
\* a defined number the rating is
\* clamp(5 + 25 * (entity_cumret - benchmark_cumret), 0, 10).
C11_RatingIsClampFromTwoPoints ==
    value # None =>
        /\ WithinZeroTen(value.RS_Rating)
        /\ (Cardinality(AlignedStamps) >= 2 /\ ~IsNaN(RelativePerf))
               => value.RS_Rating = ClampedRating

\* C11 witness: a relative performance of exactly -10 over two aligned
\* points, rated 0 by analyze_sector
C11_Witness ==
    /\ value # None
    /\ value.by = "analyze_sector"
    /\ Cardinality(AlignedStamps) = 2
    /\ RelativePerf = Rat(-10, 1)
    /\ value.RS_Rating = Rat(0, 1)

\* C12: analyze_sector's rating is the midpoint 5 whenever there is no
\* benchmark or an empty one, the entity and the benchmark have no common
\* return timestamp, they have fewer than two, or a cumulative return over
\* the common timestamps is undefined (NaN).
C12_FallbackToMidpoint ==
    ( /\ value # None
      /\ value.by = "analyze_sector"
      /\ \/ args.benchmark_data = None
         \/ Len(args.benchmark_data.Close) = 0
         \/ Cardinality(AlignedStamps) < 2
         \/ IsNaN(EntityCumret)
         \/ IsNaN(BenchmarkCumret) )
    => value.RS_Rating = Rat(5, 1)

\* C12 witness: exactly one common return point at which the entity and
\* the benchmark moved differently, rated 5 by analyze_sector
C12_Witness ==
    /\ value # None
    /\ value.by = "analyze_sector"
    /\ Cardinality(AlignedStamps) = 1
    /\ ~IsNaN(RelativePerf)
    /\ ClampedRating # Rat(5, 1)
    /\ value.RS_Rating = Rat(5, 1)

\* the four normalised indicators of the reference formula, as fractions
\* of the values in their natural units (ADX_Z and RS_Rating are held in
\* tenths, CMF in hundredths)
RsiNorm(rsi) == XDiv(100 - rsi, 10)

AdxZNorm(adx_z) == XMul(IF adx_z < 0 THEN XDiv(-adx_z, 10) ELSE Rat(0, 1), Rat(2, 1))

CmfNorm(cmf) == XMul(XAdd(XDiv(cmf, 100), Rat(1, 1)), Rat(5, 1))

RsRatingNorm(rs_rating) == XAdd(Rat(10, 1), XNeg(XDiv(rs_rating, 10)))

\* the weight of an indicator: the supplied one, else the default
WeightOrDefault(w, key) ==
    IF key \in DOMAIN w THEN w[key]
    ELSE IF key \in {"RSI", "ADX_Z"} THEN 10 ELSE 40

\* the sum of the supplied weights
RECURSIVE TotalWeight(_, _)
TotalWeight(w, keys) ==
    IF keys = {} THEN 0
    ELSE LET key == CHOOSE x \in keys : TRUE
         IN  w[key] + TotalWeight(w, keys \ {key})

\* norm * weight / total_weight * 100
Term(norm, weight, total) == XMul(XMul(norm, XDiv(weight, total)), Rat(100, 1))

\* C13: for every input, calculate_reversal_score is the sum over the four
\* indicators of norm_i * weight_i / total_weight * 100, with
\* rsi_norm = (100 - rsi)/10, adx_z_norm = max(0, -adx_z)*2,
\* cmf_norm = (cmf + 1)*5, rs_rating_norm = 10 - rs_rating and total_weight
\* the sum of the supplied weights; when all four keys are supplied the four
\* fractions weight_i / total_weight sum to 1.
C13_AbsoluteScoreFormula ==
    value # None =>
        LET w     == args.weights
            total == TotalWeight(w, DOMAIN w)
            wt(key) == WeightOrDefault(w, key)
        IN  /\ value.Reversal_Score =
                  XAdd(XAdd(Term(RsiNorm(args.rsi), wt("RSI"), total),
                            Term(AdxZNorm(args.adx_z), wt("ADX_Z"), total)),
                       XAdd(Term(CmfNorm(args.cmf), wt("CMF"), total),
                            Term(RsRatingNorm(args.rs_rating), wt("RS_Rating"), total)))
            /\ DOMAIN w = {"RSI", "ADX_Z", "CMF", "RS_Rating"} =>
                  XAdd(XAdd(XDiv(w.RSI, total), XDiv(w.ADX_Z, total)),
                       XAdd(XDiv(w.CMF, total), XDiv(w.RS_Rating, total))) = Rat(1, 1)

\* C13 witness: RSI 25, ADX_Z +1.5 (its normalised value is floored at 0),
\* CMF 0.15 and RS_Rating 3.0 under the weights RS_Rating 10, CMF 0, RSI 30,
\* ADX_Z 5 (sum 45) score (7.5*30 + 0*5 + 5.75*0 + 7*10) / 45 * 100 = 5900/9
C13_Witness ==
    /\ value # None
    /\ args.weights = ReversalNoCMF
    /\ args.rsi = 25 /\ args.adx_z = 15 /\ args.cmf = 15 /\ args.rs_rating = 30
    /\ value.Reversal_Score = Rat(5900, 9)

\* the latest value of a series when it is defined, else the default
LatestIfDefined(series, default) ==
    IF series # <<>> /\ ~IsNaN(series[Len(series)])
    THEN series[Len(series)]
    ELSE default

\* C14: every EntityResult carries a defined number in RSI, ADX, DI_Spread
\* and CMF: the indicator's latest value when that is defined, otherwise
\* the neutral default (50, 0, 0, 0) -- also when the series has defined
\* values but its latest value is undefined.
C14_LatestOrNeutralDefault ==
    value # None =>
        /\ ~IsNaN(value.RSI) /\ ~IsNaN(value.ADX)
        /\ ~IsNaN(value.DI_Spread) /\ ~IsNaN(value.CMF)
        /\ value.RSI = LatestIfDefined(args.rsi, Rat(50, 1))
        /\ value.ADX = LatestIfDefined(args.adx, Rat(0, 1))
        /\ value.DI_Spread = LatestIfDefined(args.di_spread, Rat(0, 1))
        /\ value.CMF = LatestIfDefined(args.cmf, Rat(0, 1))

\* an entry of the dict whose analysis raises
IsFailing(item) == item.name # Benchmark /\ ~item.data.ok

\* an entry of the dict that yields a row: not the benchmark, not failing
IsValid(item) == item.name # Benchmark /\ item.data.ok

\* the dict without its failing entries; without the benchmark's entry
WithoutFailing(batch) == SelectSeq(batch, LAMBDA item : ~IsFailing(item))

WithoutBenchmark(batch) == SelectSeq(batch, LAMBDA item : item.name # Benchmark)

\* what a call with the weights and thresholds of the current one returns
\* on another dict
SameCallOn(batch) ==
    analyze_all_sectors(batch, momentum_weights, reversal_weights, reversal_thresholds)

\* C15: a finished call on a dict with failing entities returns exactly
\* what it returns on the dict that never contained them: the failing
\* entity is left out and every other row, rank and score is the same.
C15_FailureIsIsolated ==
    pc = "done" => df = SameCallOn(WithoutFailing(sector_data))

\* C15 witness: a finished call on a dict with a failing entity between two
\* good ones, returning the table of the two
C15_Witness ==
    /\ Done
    /\ Len(df.rows) = 2
    /\ \E i, j, k \in 1..Len(sector_data) :
         /\ i < j /\ j < k
         /\ IsValid(sector_data[i])
         /\ IsFailing(sector_data[j])
         /\ IsValid(sector_data[k])

\* C16: a finished call returns None exactly when no entity yields a row
\* (an empty dict, only the benchmark, every entity failing), and a table
\* it returns has at least one row.
C16_EmptyBatchReturnsNone ==
    pc = "done" =>
        /\ (\A i \in 1..Len(sector_data) : ~IsValid(sector_data[i]))
              <=> df = NoneReturned
        /\ df # NoneReturned => (df.kind = "DataFrame" /\ Len(df.rows) >= 1)

\* C16 witness: a finished call on the benchmark and two failing entities,
\* returning None
C16_Witness ==
    /\ pc = "done"
    /\ df = NoneReturned
    /\ Len(sector_data) = 3
    /\ \E i \in 1..3 : sector_data[i].name = Benchmark
    /\ Cardinality({i \in 1..3 : IsFailing(sector_data[i])}) = 2

\* C17: no row of a returned table is the benchmark's, and a finished call
\* returns exactly what it returns on the dict without the benchmark's
\* entry.
C17_BenchmarkExcluded ==
    pc = "done" =>
        /\ df.kind = "DataFrame" =>
              \A i \in 1..Len(df.rows) : df.rows[i].Sector # "Nifty 50"
        /\ df = SameCallOn(WithoutBenchmark(sector_data))

\* C17 witness: a finished call on a dict with the benchmark's entry
\* between two good entities, returning their two rows
C17_Witness ==
    /\ Done
    /\ Len(df.rows) = 2
    /\ \E i, j, k \in 1..Len(sector_data) :
         /\ i < j /\ j < k
         /\ IsValid(sector_data[i])
         /\ sector_data[j].name = Benchmark
         /\ IsValid(sector_data[k])

\* the names of the entities that yield a row, in dict order
ValidNames(batch) ==
    LET valid == SelectSeq(batch, IsValid)
    IN  [i \in 1..Len(valid) |-> valid[i].name]

\* C18: the rows of a returned table are the entities that yield a row, in
\* the order of the dict, each once, each with its own indicator values.
C18_OrderPreserved ==
    Done =>
        LET valid == SelectSeq(sector_data, IsValid)
        IN  /\ Column(df.rows, "Sector") = ValidNames(sector_data)
            /\ \A i, j \in 1..Len(df.rows) :
                  i # j => df.rows[i].Sector # df.rows[j].Sector
            /\ \A i \in 1..Len(df.rows) :
                  /\ df.rows[i].RSI = valid[i].data.RSI
                  /\ df.rows[i].ADX_Z = valid[i].data.ADX_Z
                  /\ df.rows[i].CMF = valid[i].data.CMF
                  /\ df.rows[i].RS_Rating = valid[i].data.RS_Rating
                  /\ df.rows[i].DI_Spread = valid[i].data.DI_Spread

\* C18 witness: a returned table of three rows whose Momentum_Score goes up
\* and then down (the rows are in neither score order), from a dict with
\* the benchmark's entry after the first entity
C18_Witness ==
    /\ Done
    /\ Len(df.rows) = 3
    /\ ~RatLeq(df.rows[2].Momentum_Score, df.rows[1].Momentum_Score)
    /\ ~RatLeq(df.rows[2].Momentum_Score, df.rows[3].Momentum_Score)
    /\ \E i \in 2..Len(sector_data) : sector_data[i].name = Benchmark

\* the loop has taken every entry of the dict
LoopComplete == idx > Len(sector_data)

\* C19: while the loop runs nothing is scored or returned and every result
\* holds the placeholder 0; a result is returned only in the step that
\* follows the last entity's analysis; and every row returned has a
\* Momentum_Score made of its four ranks among all the entities that yield
\* a row, which is positive (not the placeholder) unless every momentum
\* weight is 0.
C19_ScoringIsABarrier ==
    /\ [](pc = "loop" =>
            /\ df = Unset
            /\ \A i \in 1..Len(results) :
                  /\ results[i].Momentum_Score = Rat(0, 1)
                  /\ "RSI_Rank" \notin DOMAIN results[i])
    /\ [][df' # df => (pc = "loop" /\ LoopComplete /\ pc' = "done")]_vars
    /\ [](Done =>
            LET rows == df.rows
                all  == 1..Len(rows)
                w    == MomentumWeightsInForce
                rk(i, col) == RankAmongLower(rows, all, col, rows[i][col])
            IN  /\ LoopComplete
                /\ Len(rows) = Cardinality({i \in 1..Len(sector_data) :
                                               IsValid(sector_data[i])})
                /\ \A i \in all :
                      /\ rows[i].Momentum_Score =
                            Rat( rk(i, "ADX_Z") * w.ADX_Z
                               + rk(i, "RS_Rating") * w.RS_Rating
                               + rk(i, "RSI") * w.RSI
                               + rk(i, "DI_Spread") * w.DI_Spread, 100)
                      /\ (w.ADX_Z + w.RS_Rating + w.RSI + w.DI_Spread > 0)
                            => rows[i].Momentum_Score.n > 0)

\* C19 witness: a finished call on three good entities whose every row has
\* a positive Momentum_Score, the last entity's rank counted in the first's
C19_Witness ==
    /\ Done
    /\ Len(df.rows) = 3
    /\ Len(results) = 3
    /\ \A i \in 1..3 : df.rows[i].Momentum_Score.n > 0
    /\ df.rows[1].RSI > df.rows[3].RSI
    /\ df.rows[1].RSI_Rank > 1

\* the list a replay returns, as a frame or None
Returned(list) == IF list = <<>> THEN NoneReturned ELSE DataFrame(list)

\* the points of the call whose truncated series of the selected entity has
\* the minimum history
PointsWithHistory ==
    { i \in 1..args.periods : subset_len(args.data, i) >= MinTrendBars }

\* nothing raises at any point of the call
NothingRaises ==
    /\ args.data.raises = {}
    /\ \A k \in 1..Len(args.all_data) : args.all_data[k].data.raises = {}

\* the records of a list are in strictly increasing time order, labelled
\* T-(K-1) down to T with the label's date the last bar of the point, and
\* none stands for a point with fewer than MinTrendBars bars
OldestToNewest(list) ==
    /\ \A j \in 1..Len(list) :
          /\ list[j].Period.back + 1 \in PointsWithHistory
          /\ list[j].Period.date = args.data.n - list[j].Period.back
          /\ list[j].bars = list[j].Period.date
    /\ \A j \in 1..Len(list), k \in 1..Len(list) :
          j < k => /\ list[j].Period.date < list[k].Period.date
                   /\ list[j].Period.back > list[k].Period.back

\* C20: the trend replayer emits its records oldest to newest.  At every
\* moment of a call with K periods the records collected so far are in
\* strictly increasing time order, labelled within T-(K-1) .. T, newest
\* last; a point whose truncated series has fewer than 14 bars has no
\* record, and the other points keep their order: when nothing raises the
\* finished list holds exactly the points with 14 bars or more, from
\* T-(K-1) down to T; and a fresh call on the same input builds the same
\* list again, starting from the empty list.
C20_TrendOldestToNewest ==
    /\ trend_pc \in {"loop", "done"} /\ args.data # None
          => OldestToNewest(trend_data)
    /\ trend_pc = "loop" /\ period_i = args.periods => trend_data = <<>>
    /\ trend_pc = "done" /\ value # NoneReturned /\ NothingRaises
          => { value.rows[j].Period.back + 1 : j \in 1..Len(value.rows) } = PointsWithHistory
    /\ trend_pc = "done" => value = first_trend
    /\ trend_pc = "loop" /\ period_i = 0 /\ first_trend # Unset
          => Returned(trend_data) = first_trend

\* a second call on the same input has rebuilt a list of two records, the
\* oldest point of the three having been skipped for its 13 bars, and the
\* list ends with the point T
C20_Witness ==
    /\ trend_pc = "loop"
    /\ period_i = 0
    /\ first_trend # Unset
    /\ args.fn = "calculate_sector_trend"
    /\ args.periods = 3
    /\ args.data.n = MinTrendBars + 1
    /\ Len(args.all_data) = 3
    /\ Len(trend_data) = 2
    /\ trend_data[1].Period = [back |-> 1, date |-> MinTrendBars]
    /\ trend_data[2].Period = [back |-> 0, date |-> MinTrendBars + 1]
    /\ trend_data[2].sectors = 2

\* the timestamps of an index
Stamps(index) == { index[k] : k \in 1..Len(index) }

\* every bar handed to the indicator functions at a point is dated at or
\* before the date of the point's label
PointInTime(point) ==
    /\ \A k \in 1..Len(point.subset_data) :
          \A t \in Stamps(point.subset_data[k].index) : t <= point.date
    /\ \A t \in Stamps(point.bench_subset) : t <= point.date

\* C21: replay is point-in-time for the whole peer set.  At every point of
\* a replay, labelled with the date t, the frames of every ranked entity and
\* of the benchmark that the indicators are computed from hold only bars
\* with timestamp <= t, whatever the gaps and the last timestamps of the
\* input series.
C21_ReplayIsPointInTime ==
    value # None /\ value # NoneReturned
        => \A j \in 1..Len(value.points) : PointInTime(value.points[j])

\* C22: the replay reproduces the scorer.  At a point, the Momentum_Score
\* of every ranked entity in the replay's period frame is the Momentum_Score
\* analyze_all_sectors gives the entity on the same data with the momentum
\* weights in force, and the two frames put the entities in the same rank
\* order.
C22_ReplayReproducesScorer ==
    value # None /\ value.scorer # NoneReturned
        => /\ Len(value.period_df) = Len(value.scorer.rows)
           /\ \A i \in 1..Len(value.period_df) :
                 /\ value.period_df[i].Sector = value.scorer.rows[i].Sector
                 /\ value.period_df[i].Momentum_Score = value.scorer.rows[i].Momentum_Score
           /\ rank_descending(Column(value.period_df, "Momentum_Score"))
                 = rank_descending(Column(value.scorer.rows, "Momentum_Score"))

\* the rational q is at least lo and at most hi
Within(q, lo, hi) == lo * q.d <= q.n /\ q.n <= hi * q.d

\* the weighted average ranks of a period frame
AverageRanks(period_df) == { period_df[k].Weighted_Avg_Rank : k \in 1..Len(period_df) }

ForwardReturnFrom(frame, d, N) ==
    LET p == CHOOSE p \in 1..Len(frame.index) : frame.index[p] = d
    IN  IF Len(frame.index) - p >= N
        THEN round_2(Rat((frame.Close[p + N] - frame.Close[p]) * 100, frame.Close[p]))
        ELSE [text |-> "N/A"]

\* C23: forward returns of the historical momentum report.  For every
\* reported date d and each of the two top-ranked sectors, the 7-bar and the
\* 14-bar forward return shown is the percentage change from the sector's
\* own close at its bar dated d to its close N bars later, and 'N/A' exactly
\* when fewer than N of the sector's bars follow d, whatever the lengths of
\* the two sectors' series; and the ranking at d was computed from bars
\* dated before d only.
C23_ForwardReturnsFromDate ==
    value # None /\ value # NoneReturned
        => \A j \in 1..Len(value.rows) :
              LET r  == value.rows[j]
                  f1 == frame_of(args.sector_data_dict, r.Rank_1_Sector)
                  f2 == frame_of(args.sector_data_dict, r.Rank_2_Sector)
              IN  /\ r.Rank_1_7Day  = ForwardReturnFrom(f1, r.Date, ForwardWeek)
                  /\ r.Rank_1_14Day = ForwardReturnFrom(f1, r.Date, ForwardFortnight)
                  /\ r.Rank_2_7Day  = ForwardReturnFrom(f2, r.Date, ForwardWeek)
                  /\ r.Rank_2_14Day = ForwardReturnFrom(f2, r.Date, ForwardFortnight)
                  /\ \A k \in 1..Len(r.ranked) :
                        \A t \in Stamps(r.ranked[k].subset_index) : t < r.Date


\* the fetches fetch_sector_data made in the last call of the fetcher
Attempts == { last_fetch.attempts[k] : k \in 1..Len(last_fetch.attempts) }

\* the data a fetch ended up with: what the source it asked last handed back
Obtained(attempt) == attempt.contacted[Len(attempt.contacted)].reply

IsFrame(reply) == reply # None /\ reply # Raises

\* C24: whenever the data a fetch obtained for a symbol, from the local
\* cache or from the remote source, has fewer than min_data_points bars,
\* fetch_sector_data returns None for that symbol.
C24_TooShortIsFailure ==
    \A attempt \in Attempts :
        ( /\ attempt.contacted # <<>>
          /\ IsFrame(Obtained(attempt))
          /\ Obtained(attempt).bars < attempt.req.min_data_points )
        => attempt.returned = None


\* the entry _data_cache holds for a key, None when it holds none
Entry(cache_key) ==
    IF cache_key \in DOMAIN data_cache THEN data_cache[cache_key] ELSE None

\* the last call was made after the last clear_data_cache
AfterClear == last_fetch.seq > last_clear

\* a fetch that returned None left the entry of its key as it found it
FailureStoresNothing ==
    AfterClear =>
        \A attempt \in Attempts :
            attempt.returned = None => Entry(attempt.cache_key) = attempt.entry_before

\* no fetch made after clear_data_cache returns data stored before it
NothingFromBeforeClear ==
    AfterClear =>
        \A attempt \in Attempts :
            attempt.returned # None => attempt.returned.call > last_clear

\* the entry a fetch found for its key was still valid
FoundValid(attempt) ==
    /\ attempt.entry_before # None
    /\ attempt.at - attempt.entry_before.timestamp < CacheTTL

\* C30 as stated: a fetch returning None adds or refreshes no entry, a
\* fetch of a key whose latest fetch returned None contacts the source
\* again, and after clear_data_cache no fetch returns data stored before
\* the clear.
C30_FailedFetchContactsAgain ==
    /\ FailureStoresNothing
    /\ \A attempt \in Attempts : attempt.failed_before => attempt.contacted # <<>>
    /\ NothingFromBeforeClear

\* C30, amended: a fetch returning None adds or refreshes no entry, so no
\* fetch is answered with a cached failure: a fetch contacts a source unless
\* use_cache is set and the key has an entry younger than the TTL, which
\* then holds the data of an earlier successful fetch; and after
\* clear_data_cache no fetch returns data stored before the clear.
C30_FailedFetchLeavesCache ==
    /\ FailureStoresNothing
    /\ \A attempt \in Attempts :
          /\ attempt.contacted = <<>> <=> (attempt.req.use_cache /\ FoundValid(attempt))
          /\ attempt.contacted = <<>> =>
                /\ attempt.returned # None
                /\ attempt.returned = attempt.entry_before.data
    /\ NothingFromBeforeClear

\* a key whose latest fetch failed (it was made with use_cache=False) is
\* served from the entry an earlier successful fetch stored
C30_Witness ==
    \E attempt \in Attempts :
        /\ attempt.failed_before
        /\ attempt.hit
        /\ attempt.returned # None
        /\ AfterClear


\* the day of an end date, 'latest' without one
DayOf(end_date) == IF end_date = None THEN <<"latest">> ELSE end_date.day

\* data obtained for one request answers another: same symbol, period, day
\* of the end date and interval
SameKeyArguments(data, req) ==
    /\ data.symbol = req.symbol
    /\ data.period = req.period
    /\ DayOf(data.end_date) = DayOf(req.end_date)
    /\ data.interval = req.interval

\* C25: a fetch with use_cache=True returns the stored data without
\* contacting any source iff the key of (symbol, period, end_date, interval)
\* has an entry of age strictly less than 300 seconds; an older entry is
\* never returned; requests differing in symbol, period, day of the end
\* date or interval never share an entry.
C25_CacheHonoursKeyAndTTL ==
    \A attempt \in Attempts :
        attempt.req.use_cache =>
            /\ (attempt.contacted = <<>> /\ attempt.entry_before # None
                    /\ attempt.returned = attempt.entry_before.data)
                <=> ( /\ attempt.entry_before # None
                      /\ attempt.at - attempt.entry_before.timestamp < 300 )
            /\ attempt.contacted # <<>> \/ attempt.hit
            /\ (attempt.hit /\ attempt.returned # None) =>
                    SameKeyArguments(attempt.returned, attempt.req)
            /\ \A cache_key \in DOMAIN data_cache :
                    SameKeyArguments(data_cache[cache_key].data, attempt.req)
                        <=> cache_key = attempt.cache_key

\* a fetch answered from an entry one second short of the TTL while another
\* key's entry is in the cache too
C25_Witness ==
    \E attempt \in Attempts :
        /\ attempt.hit
        /\ attempt.at - attempt.entry_before.timestamp = CacheTTL - 1
        /\ Cardinality(DOMAIN data_cache) >= 2


\* the last call was fetch_sector_data_with_alternate
WithAlternate == last_fetch.fn = "fetch_sector_data_with_alternate"

\* the key fetch_sector_data computes for the k-th fetch's request with
\* `symbol` in place of its symbol
KeyFor(symbol, k) ==
    LET req == last_fetch.attempts[k].req
    IN  GetCacheKey(symbol, req.period, req.end_date, req.interval)

\* C27: the primary symbol is fetched first; the alternate is fetched only
\* after the primary fetch returned None and only if an alternate other
\* than None and 'N/A' is given; the returned symbol is the one whose data
\* is returned, the primary whenever the primary succeeds; the result is
\* (None, None) iff no attempted fetch returned data.
C27_PrimaryThenAlternate ==
    WithAlternate =>
        LET attempts == last_fetch.attempts
            alternate_symbol == last_fetch.alternate_symbol
        IN  /\ Len(attempts) \in {1, 2}
            /\ attempts[1].cache_key = KeyFor(last_fetch.symbol, 1)
            /\ Len(attempts) = 2 =>
                  /\ attempts[1].returned = None
                  /\ alternate_symbol # None
                  /\ alternate_symbol.str # <<"N/A">>
                  /\ attempts[2].cache_key = KeyFor(alternate_symbol.str, 2)
            /\ attempts[1].returned # None =>
                  last_fetch.returned = <<attempts[1].returned, last_fetch.symbol>>
            /\ last_fetch.returned[1] # None =>
                  /\ \E k \in 1..Len(attempts) :
                        /\ attempts[k].returned = last_fetch.returned[1]
                        /\ attempts[k].cache_key = KeyFor(last_fetch.returned[2], k)
                  /\ last_fetch.returned[1].symbol = last_fetch.returned[2]
            /\ last_fetch.returned = <<None, None>>
                  <=> \A k \in 1..Len(attempts) : attempts[k].returned = None

\* the primary fetch failed and the alternate's data is returned
C27_Witness ==
    /\ WithAlternate
    /\ Len(last_fetch.attempts) = 2
    /\ last_fetch.returned[1] # None
    /\ last_fetch.returned[2] = last_fetch.alternate_symbol.str
    /\ last_fetch.returned[2] # last_fetch.symbol


\* the names in fetch_all_sectors_parallel's failed list
Failed == { failed_sectors[k] : k \in 1..Len(failed_sectors) }

Numeric(shown) == shown # NotApplicable

\* C28: the Status the reversal replay reports at a point equals the status
\* determine_reversal_status returns for the same RSI, ADX_Z and CMF values
\* and the same thresholds, and the record shows a numeric Rank and
\* Reversal_Score iff that status is not 'No'.
C28_ReplayStatusIsMainStatus ==
    (value # None /\ value.kind = "reversal_point") =>
        \A k \in 1..Len(value.record) :
            /\ value.record[k].Status = value.main
            /\ (Numeric(value.record[k].Rank) /\ Numeric(value.record[k].Reversal_Score))
                  <=> value.main # "No"

=============================================================================
